---- MODULE Spec2Model ----
(***************************************************************************)
(* Loadout planner: the equip rules engine (canEquip), the drop mutation   *)
(* (handleItemEquip), the unequip handlers and the augment resize effect   *)
(* of src/src/App.tsx, and the drag session of the useDragAndDrop hook     *)
(* (src/unnamed/part_004).                                                 *)
(*                                                                         *)
(* Conventions.  Array indices are 0-based as in the source; the sequence  *)
(* that models an array holds element i at position i + 1.  JavaScript's   *)
(* `undefined` index is UNDEF, the index of a single slot is -1 as in the  *)
(* source.  An empty cell (null / undefined / array hole) is NULL.  A      *)
(* stack instance is [id, count, mods, isIntegrated]; every other field of *)
(* an Item is copied from the catalog by the spread operator and is read   *)
(* through Catalog[id].  A count of 0 stands for an absent count: the      *)
(* source reads counts as `count || 1`, which treats both alike.  The      *)
(* modifications array of a stack is kept at the length of the item's      *)
(* supportedModifications, an absent array or a hole being empty cells.    *)
(***************************************************************************)
EXTENDS Integers, Sequences, FiniteSets, TLC

\* ---------------------------------------------------------------- bounds
\* Pool indices 0 .. MaxBackpackIdx-1 of the backpack are used by gestures.
MaxBackpackIdx == 2
\* Pool indices 0 .. MaxPoolIdx-1 of quickUse, extra and safePocket are used.
MaxPoolIdx == 1
\* Number of slot stacks (mounted modifications aside) the user keeps equipped.
MaxItems == 2

\* ------------------------------------------------------------- constants
UNDEF == -2
DEFAULT_SLOTS == [backpack |-> 16, quickUse |-> 3, safePocket |-> 0]
EXTRA_SLOT_TYPES ==
  << "trinket", "grenade", "utility", "integrated_binoculars",
     "integrated_shield_recharger", "healing" >>

NULL == [id |-> "null", count |-> 0, mods |-> << >>, isIntegrated |-> FALSE]

\* Fault variant of Min: the cap is forgotten.
Min_NoCap(a, b) == a

Min(a, b) == IF a < b THEN a ELSE b

\* --------------------------------------------------------------- catalog
\* Item definitions in the normalised Item shape.  stackSize 0 = absent,
\* slots is a partial map (absent key = undeclared).
NoSlots == [k \in {} |-> 0]
Def(cat, stack, compat, slots, supMods) ==
  [category |-> cat, stackSize |-> stack, shieldCompatibility |-> compat,
   slots |-> slots, supportedModifications |-> supMods]

Catalog ==
  [ aug_a |-> Def({"Augment"}, 0, {"light", "medium"},
                  [backpack |-> 4, quick_use |-> 2, safe_pocket |-> 1, utility |-> 1], << >>),
    aug_c |-> Def({"Augment"}, 0, {"light", "medium", "heavy"}, [backpack |-> 2], << >>),
    aug_b |-> Def({"Augment"}, 0, {"light"},
                  [backpack |-> 1, integrated_binoculars |-> 1], << >>),
    light_shield  |-> Def({"Shield"}, 0, {}, NoSlots, << >>),
    medium_shield |-> Def({"Shield"}, 0, {}, NoSlots, << >>),
    gun     |-> Def({"Weapon", "Gun"}, 0, {}, NoSlots, << "Muzzle", "Muzzle" >>),
    rifle   |-> Def({"Weapon", "Gun"}, 0, {}, NoSlots, << "Muzzle", "Stock" >>),
    muzzle  |-> Def({"Modification", "Muzzle"}, 3, {}, NoSlots, << >>),
    ammo    |-> Def({"Ammunition"}, 3, {}, NoSlots, << >>),
    binoculars |-> Def({"Quick Use", "Utility"}, 0, {}, NoSlots, << >>) ]

ItemIds == DOMAIN Catalog
\* The inventory rows the user drags from.
InventoryIds == {"aug_a", "aug_b", "medium_shield", "gun", "muzzle", "binoculars"}

Categories(item) == Catalog[item.id].category
StackSize(item) == Catalog[item.id].stackSize
SupportedModifications(item) == Catalog[item.id].supportedModifications

\* `count || 1`
CountOr1(item) == IF item.count = 0 THEN 1 ELSE item.count

\* A catalog item as dragged from the inventory panel: no count, nothing
\* mounted.
CatalogItem(id) ==
  [id |-> id, count |-> 0,
   mods |-> [k \in 1..Len(Catalog[id].supportedModifications) |-> [id |-> "null", count |-> 0, mods |-> << >>, isIntegrated |-> FALSE]],
   isIntegrated |-> FALSE]

\* ------------------------------------------------------- loadout access
ArraySections == {"weapons", "backpack", "quickUse", "extra", "safePocket"}
SingleSections == {"augment", "shield"}
Sections == SingleSections \cup ArraySections

\* arr[idx] of a JavaScript array: out of range reads undefined.
At(arr, idx) == IF idx >= 0 /\ idx < Len(arr) THEN arr[idx + 1] ELSE NULL

\* arr[idx] = val; writing past the end grows the array with holes.
SetAt(arr, idx, val) ==
  IF idx < Len(arr)
  THEN [arr EXCEPT ![idx + 1] = val]
  ELSE [i \in 1..(idx + 1) |-> IF i <= Len(arr) THEN arr[i] ELSE IF i = idx + 1 THEN val ELSE NULL]

\* weapon.modifications[k]
ModAt(weapon, k) == At(weapon.mods, k)

EmptyLoadout ==
  [augment |-> NULL, shield |-> NULL,
   weapons |-> << NULL, NULL >>,
   backpack |-> [i \in 1..DEFAULT_SLOTS.backpack |-> NULL],
   quickUse |-> [i \in 1..DEFAULT_SLOTS.quickUse |-> NULL],
   extra |-> << >>,
   safePocket |-> [i \in 1..DEFAULT_SLOTS.safePocket |-> NULL]]

\* ------------------------------------------------------ equip rules engine
\* String.prototype.toLowerCase on the category vocabulary.
Lower(s) ==
  CASE s = "Augment" -> "augment"
    [] s = "Shield" -> "shield"
    [] s = "Weapon" -> "weapon"
    [] s = "Gun" -> "gun"
    [] s = "Ammunition" -> "ammunition"
    [] s = "Modification" -> "modification"
    [] s = "Quick Use" -> "quick use"
    [] s = "Key" -> "key"
    [] s = "Grenade" -> "grenade"
    [] s = "Trinket" -> "trinket"
    [] s = "Utility" -> "utility"
    [] s = "Healing" -> "healing"
    [] s = "Muzzle" -> "muzzle"
    [] s = "Stock" -> "stock"
    [] OTHER -> s

\* type.startsWith('integrated_') over the declared extra-slot types.
StartsWithIntegrated(type) ==
  type \in {"integrated_binoculars", "integrated_shield_recharger"}

\* augment.slots[key] || 0
SlotCount(augment, key) ==
  IF augment = NULL THEN 0
  ELSE IF key \in DOMAIN Catalog[augment.id].slots THEN Catalog[augment.id].slots[key] ELSE 0

RECURSIVE Repeat(_, _)
Repeat(x, n) == IF n <= 0 THEN << >> ELSE << x >> \o Repeat(x, n - 1)

RECURSIVE SlotTypesFrom(_, _)
SlotTypesFrom(augment, k) ==
  IF k > Len(EXTRA_SLOT_TYPES) THEN << >>
  ELSE Repeat(EXTRA_SLOT_TYPES[k], SlotCount(augment, EXTRA_SLOT_TYPES[k]))
         \o SlotTypesFrom(augment, k + 1)

\* extraSlotConfig.slotTypes (0-based array as a sequence) and .count
extraSlotTypes(augment) == SlotTypesFrom(augment, 1)
extraSlotCount(augment) == Len(extraSlotTypes(augment))
\* extraSlotConfig.slotTypes[i]; "" stands for undefined (falsy)
ExtraTypeAt(augment, i) ==
  LET ts == extraSlotTypes(augment) IN IF i >= 0 /\ i < Len(ts) THEN ts[i + 1] ELSE ""

getShieldType(id) ==
  CASE id = "light_shield" -> "light"
    [] id = "medium_shield" -> "medium"
    [] id = "heavy_shield" -> "heavy"
    [] OTHER -> ""

\* Fault variant of isShieldCompatible: without an augment every shield fits.
isShieldCompatible_NoAugment(shield, augment) ==
  IF shield = NULL THEN TRUE
  ELSE LET type == getShieldType(shield.id) IN
    IF type = "" THEN TRUE
    ELSE IF type = "light" THEN TRUE
    ELSE IF augment = NULL THEN TRUE
    ELSE type \in Catalog[augment.id].shieldCompatibility

isShieldCompatible(shield, augment) ==
  IF shield = NULL THEN TRUE
  ELSE LET type == getShieldType(shield.id) IN
    IF type = "" THEN TRUE
    ELSE IF type = "light" THEN TRUE
    ELSE IF augment = NULL THEN FALSE
    ELSE type \in Catalog[augment.id].shieldCompatibility

\* Fault variant of canEquipCat: the Augment rule is exclusive, an item
\* tagged Augment is refused everywhere but in the augment slot.
canEquipCat_AugmentOnly(ld, id, categories, slotType, slotIndex, modIndex) ==
  IF slotType = "weapons" /\ modIndex # -1
  THEN LET weapon == At(ld.weapons, slotIndex) IN
       IF weapon = NULL \/ Len(SupportedModifications(weapon)) = 0 THEN FALSE
       ELSE IF ~(modIndex >= 0 /\ modIndex < Len(SupportedModifications(weapon))) THEN FALSE
       ELSE SupportedModifications(weapon)[modIndex + 1] \in categories
  ELSE IF "Augment" \in categories THEN slotType = "augment"
  ELSE IF "Shield" \in categories /\ slotType = "shield"
       THEN isShieldCompatible([NULL EXCEPT !.id = id], ld.augment)
  ELSE IF "Shield" \in categories /\ slotType \in {"backpack", "safePocket"} THEN TRUE
  ELSE IF "Weapon" \in categories /\ slotType \in {"weapons", "backpack"} THEN TRUE
  ELSE IF slotType = "extra"
       THEN IF slotIndex = -1 THEN FALSE
            ELSE LET type == ExtraTypeAt(ld.augment, slotIndex) IN
                 IF type = "" \/ StartsWithIntegrated(type) THEN FALSE
                 ELSE \E c \in categories : Lower(c) = Lower(type)
  ELSE IF "Ammunition" \in categories /\ slotType \in {"backpack", "safePocket"} THEN TRUE
  ELSE IF "Modification" \in categories /\ slotType \in {"backpack", "safePocket"} THEN TRUE
  ELSE IF "Quick Use" \in categories /\ slotType \in {"backpack", "quickUse", "safePocket"} THEN TRUE
  ELSE IF "Key" \in categories /\ slotType \in {"backpack", "safePocket"} THEN TRUE
  ELSE FALSE

\* Fault variant of canEquipCat: the rules for Shield and Weapon items are
\* tried before the modification-slot rule.
canEquipCat_ModRuleLate(ld, id, categories, slotType, slotIndex, modIndex) ==
  IF "Augment" \in categories /\ slotType = "augment" THEN TRUE
  ELSE IF "Shield" \in categories /\ slotType = "shield"
       THEN isShieldCompatible([NULL EXCEPT !.id = id], ld.augment)
  ELSE IF "Shield" \in categories /\ slotType \in {"backpack", "safePocket"} THEN TRUE
  ELSE IF "Weapon" \in categories /\ slotType \in {"weapons", "backpack"} THEN TRUE
  ELSE IF slotType = "weapons" /\ modIndex # -1
  THEN LET weapon == At(ld.weapons, slotIndex) IN
       IF weapon = NULL \/ Len(SupportedModifications(weapon)) = 0 THEN FALSE
       ELSE IF ~(modIndex >= 0 /\ modIndex < Len(SupportedModifications(weapon))) THEN FALSE
       ELSE SupportedModifications(weapon)[modIndex + 1] \in categories
  ELSE IF slotType = "extra"
       THEN IF slotIndex = -1 THEN FALSE
            ELSE LET type == ExtraTypeAt(ld.augment, slotIndex) IN
                 IF type = "" \/ StartsWithIntegrated(type) THEN FALSE
                 ELSE \E c \in categories : Lower(c) = Lower(type)
  ELSE IF "Ammunition" \in categories /\ slotType \in {"backpack", "safePocket"} THEN TRUE
  ELSE IF "Modification" \in categories /\ slotType \in {"backpack", "safePocket"} THEN TRUE
  ELSE IF "Quick Use" \in categories /\ slotType \in {"backpack", "quickUse", "safePocket"} THEN TRUE
  ELSE IF "Key" \in categories /\ slotType \in {"backpack", "safePocket"} THEN TRUE
  ELSE FALSE

\* Fault variant of canEquipExtra: the item's categories are not compared
\* with the slot type.
canEquipExtra_AnyCategory(ld, categories, slotIndex) ==
  IF slotIndex = -1 THEN FALSE
  ELSE LET type == ExtraTypeAt(ld.augment, slotIndex) IN
       IF type = "" \/ StartsWithIntegrated(type) THEN FALSE
       ELSE TRUE

\* The body of canEquip's `if (slotType === 'extra')`.
canEquipExtra(ld, categories, slotIndex) ==
  IF slotIndex = -1 THEN FALSE
  ELSE LET type == ExtraTypeAt(ld.augment, slotIndex) IN
       IF type = "" \/ StartsWithIntegrated(type) THEN FALSE
       ELSE \E c \in categories : Lower(c) = Lower(type)

\* canEquip on an item given by id and category list; slotIndex and modIndex
\* are already defaulted to -1.
canEquipCat(ld, id, categories, slotType, slotIndex, modIndex) ==
  IF slotType = "weapons" /\ modIndex # -1
  THEN LET weapon == At(ld.weapons, slotIndex) IN
       IF weapon = NULL \/ Len(SupportedModifications(weapon)) = 0 THEN FALSE
       ELSE IF ~(modIndex >= 0 /\ modIndex < Len(SupportedModifications(weapon))) THEN FALSE
       ELSE SupportedModifications(weapon)[modIndex + 1] \in categories
  ELSE IF "Augment" \in categories /\ slotType = "augment" THEN TRUE
  ELSE IF "Shield" \in categories /\ slotType = "shield"
       THEN isShieldCompatible([NULL EXCEPT !.id = id], ld.augment)
  ELSE IF "Shield" \in categories /\ slotType \in {"backpack", "safePocket"} THEN TRUE
  ELSE IF "Weapon" \in categories /\ slotType \in {"weapons", "backpack"} THEN TRUE
  ELSE IF slotType = "extra" THEN canEquipExtra(ld, categories, slotIndex)
  ELSE IF "Ammunition" \in categories /\ slotType \in {"backpack", "safePocket"} THEN TRUE
  ELSE IF "Modification" \in categories /\ slotType \in {"backpack", "safePocket"} THEN TRUE
  ELSE IF "Quick Use" \in categories /\ slotType \in {"backpack", "quickUse", "safePocket"} THEN TRUE
  ELSE IF "Key" \in categories /\ slotType \in {"backpack", "safePocket"} THEN TRUE
  ELSE FALSE

\* Default parameter value -1 for an undefined argument.
DefaultNeg1(x) == IF x = UNDEF THEN -1 ELSE x

canEquip(ld, item, slotType, slotIndex, modIndex) ==
  canEquipCat(ld, item.id, Categories(item), slotType, DefaultNeg1(slotIndex), DefaultNeg1(modIndex))

\* ------------------------------------------------- augment resize effect
\* augment?.slots?.<key> ?? DEFAULT_SLOTS.<field>
SlotConfig(augment, key, dflt) ==
  IF augment = NULL THEN dflt
  ELSE IF key \in DOMAIN Catalog[augment.id].slots THEN Catalog[augment.id].slots[key] ELSE dflt

\* currentItems.slice(from).filter(Boolean)
RECURSIVE NonNullFrom(_, _)
NonNullFrom(arr, from) ==
  IF from > Len(arr) THEN << >>
  ELSE IF arr[from] = NULL THEN NonNullFrom(arr, from + 1)
  ELSE << arr[from] >> \o NonNullFrom(arr, from + 1)

\* The fill loop of resizeSection: walk kept from position i, moving the
\* head of overflow into each empty cell until overflow runs out.
RECURSIVE FillGaps(_, _, _)
FillGaps(kept, overflow, i) ==
  IF i > Len(kept) \/ Len(overflow) = 0 THEN kept
  ELSE IF kept[i] = NULL
       THEN FillGaps([kept EXCEPT ![i] = Head(overflow)], Tail(overflow), i + 1)
       ELSE FillGaps(kept, overflow, i + 1)

\* Fault variant of resizeSection: a shrink cuts the array and moves
\* nothing.
resizeSection_Cut(currentItems, newSize) ==
  IF newSize = Len(currentItems) THEN currentItems
  ELSE IF newSize > Len(currentItems)
       THEN currentItems \o [i \in 1..(newSize - Len(currentItems)) |-> NULL]
  ELSE SubSeq(currentItems, 1, newSize)

resizeSection(currentItems, newSize) ==
  IF newSize = Len(currentItems) THEN currentItems
  ELSE IF newSize > Len(currentItems)
       THEN currentItems \o [i \in 1..(newSize - Len(currentItems)) |-> NULL]
  ELSE LET keptItems == SubSeq(currentItems, 1, newSize)
           overflowItems == NonNullFrom(currentItems, newSize + 1)
       IN IF Len(overflowItems) = 0 THEN keptItems
          ELSE FillGaps(keptItems, overflowItems, 1)

IntegratedItem(id) == [id |-> id, count |-> 1, mods |-> << >>, isIntegrated |-> TRUE]

\* Fault variant of ValidateExtra: the extra pool is resized only.
ValidateExtra_Keep(item, type) == item

\* The map over newExtra that re-validates the extra pool.
ValidateExtra(item, type) ==
  IF type = "integrated_binoculars" /\ "binoculars" \in ItemIds
  THEN IntegratedItem("binoculars")
  ELSE IF type = "integrated_shield_recharger" /\ "surge_shield_recharger" \in ItemIds
  THEN IntegratedItem("surge_shield_recharger")
  ELSE IF item # NULL /\ item.isIntegrated THEN NULL
  ELSE IF item # NULL /\ ~(\E c \in Categories(item) : Lower(c) = Lower(type)) THEN NULL
  ELSE item

\* The updater of the effect that runs when loadout.augment changed.
ResizeEffect(prev) ==
  LET augment == prev.augment
      resized == resizeSection(prev.extra, extraSlotCount(augment))
      types == extraSlotTypes(augment)
      newExtra == IF Len(types) > 0
                  THEN [i \in 1..Len(resized) |-> ValidateExtra(resized[i], types[i])]
                  ELSE resized
  IN [prev EXCEPT
        !.backpack = resizeSection(@, SlotConfig(augment, "backpack", DEFAULT_SLOTS.backpack)),
        !.quickUse = resizeSection(@, SlotConfig(augment, "quick_use", DEFAULT_SLOTS.quickUse)),
        !.safePocket = resizeSection(@, SlotConfig(augment, "safe_pocket", DEFAULT_SLOTS.safePocket)),
        !.extra = newExtra]

\* ------------------------------------------------------- handleItemEquip
getItem(ld, sec, idx) ==
  IF idx # -1 /\ sec \in ArraySections THEN At(ld[sec], idx) ELSE ld[sec]

setItem(ld, sec, idx, val) ==
  IF idx # -1 /\ sec \in ArraySections
  THEN [ld EXCEPT ![sec] = SetAt(@, idx, val)]
  ELSE [ld EXCEPT ![sec] = val]

\* Fault variant of EvictShield: the shield is never re-evaluated.
EvictShield_Keep(ld) == ld

\* The shield re-evaluation that follows a change of the augment slot.
EvictShield(ld) ==
  IF ld.shield # NULL /\ ~isShieldCompatible(ld.shield, ld.augment)
  THEN [ld EXCEPT !.shield = NULL]
  ELSE ld

\* newSourceWeapon.modifications[sourceModIndex] = null on the weapon at
\* (sec, idx), when there is a weapon with a modifications array.
ClearMod(ld, sec, idx, modIdx) ==
  LET sourceWeapon == At(ld[sec], idx) IN
  IF sourceWeapon # NULL /\ Len(sourceWeapon.mods) > 0 /\ modIdx < Len(sourceWeapon.mods)
  THEN [ld EXCEPT ![sec] = SetAt(@, idx, [sourceWeapon EXCEPT !.mods = SetAt(@, modIdx, NULL)])]
  ELSE ld

IsModSource(sMod) == sMod # UNDEF /\ sMod # -1

\* The early returns of handleItemEquip, before setLoadout.
SamePlace(sSec, sIdx, sMod, tSec, tIdx, tMod) ==
  sSec = tSec /\ sIdx = tIdx /\ sMod = tMod

IsFixedExtra(ld, sec, idx) ==
  sec = "extra" /\ ExtraTypeAt(ld.augment, idx) \in {"integrated_binoculars", "integrated_shield_recharger"}

\* Fault variant of EquipRejected: the canEquip verdict is ignored.
EquipRejected_NoCanEquip(ld, item, sSec, sIdx, sMod, tSec, tIdx, tMod) ==
  \/ SamePlace(sSec, sIdx, sMod, tSec, tIdx, tMod)
  \/ IsFixedExtra(ld, tSec, tIdx)

\* Fault variant of EquipRejected: only the same-place test is left.
EquipRejected_OnlySame(ld, item, sSec, sIdx, sMod, tSec, tIdx, tMod) ==
  SamePlace(sSec, sIdx, sMod, tSec, tIdx, tMod)

EquipRejected(ld, item, sSec, sIdx, sMod, tSec, tIdx, tMod) ==
  \/ SamePlace(sSec, sIdx, sMod, tSec, tIdx, tMod)
  \/ IsFixedExtra(ld, tSec, tIdx)
  \/ ~canEquip(ld, item, tSec, tIdx, tMod)

\* Fault variant of TakeFromSource: the whole source stack is removed.
TakeFromSource_All(ld, sSec, sIdx, n) == setItem(ld, sSec, sIdx, NULL)

\* Decrement of a non-modification source stack by n units.
TakeFromSource(ld, sSec, sIdx, n) ==
  LET sourceItem == getItem(ld, sSec, sIdx)
      remaining == (IF sourceItem = NULL THEN 1 ELSE CountOr1(sourceItem)) - n
  IN setItem(ld, sSec, sIdx, IF remaining > 0 THEN [sourceItem EXCEPT !.count = remaining] ELSE NULL)

\* The updater's branch for a modification-slot target.
EquipToMod(prev, item, sSec, sIdx, sMod, tSec, tIdx, tMod) ==
  LET weapon == At(prev[tSec], tIdx) IN
  IF weapon = NULL THEN [ld |-> prev, same |-> TRUE]
  ELSE
    LET newWeapon == [weapon EXCEPT !.mods = SetAt(@, tMod, [item EXCEPT !.count = 1])]
        placed == [prev EXCEPT ![tSec] = SetAt(@, tIdx, newWeapon)]
        done ==
          IF sSec # "inventory" /\ sIdx # UNDEF
          THEN IF IsModSource(sMod)
               THEN ClearMod(placed, sSec, sIdx, sMod)
               ELSE TakeFromSource(placed, sSec, sIdx, 1)
          ELSE placed
    IN [ld |-> done, same |-> FALSE]

\* Fault variant of SplitBlocked: a split drag may land on any slot.
SplitBlocked_Never(targetItem, isSplit) == FALSE

\* `if (targetItem && isSplit) return prev` of the branch that does not merge.
SplitBlocked(targetItem, isSplit) == targetItem # NULL /\ isSplit

\* The updater's branch for a slot target: merge, place or swap, then the
\* shield re-evaluation when the augment slot is involved.
EquipToSlot(prev, item, sSec, sIdx, sMod, isSplit, tSec, tIdx) ==
  LET targetItem == getItem(prev, tSec, tIdx)
      merge == targetItem # NULL /\ targetItem.id = item.id /\ StackSize(targetItem) # 0
      space == StackSize(targetItem) - CountOr1(targetItem)
      amountToMove == IF merge THEN Min(CountOr1(item), space) ELSE CountOr1(item)
      newTargetItem == IF merge
                       THEN [targetItem EXCEPT !.count = CountOr1(targetItem) + amountToMove]
                       ELSE [item EXCEPT !.count = amountToMove]
  IN
  IF ~merge /\ SplitBlocked(targetItem, isSplit) THEN [ld |-> prev, same |-> TRUE]
  ELSE IF amountToMove = 0 THEN [ld |-> prev, same |-> TRUE]
  ELSE
    LET placed == setItem(prev, tSec, tIdx, newTargetItem)
        moved ==
          IF sSec # "inventory" /\ sIdx # UNDEF
          THEN IF IsModSource(sMod)
               THEN ClearMod(placed, sSec, sIdx, sMod)
               ELSE IF targetItem # NULL /\ targetItem.id # item.id /\ ~isSplit
                    THEN setItem(placed, sSec, sIdx, targetItem)
                    ELSE TakeFromSource(placed, sSec, sIdx, amountToMove)
          ELSE placed
        final == IF tSec = "augment" \/ sSec = "augment" THEN EvictShield(moved) ELSE moved
    IN [ld |-> final, same |-> FALSE]

\* The setLoadout updater of handleItemEquip: [ld, same], same = it
\* returned prev.
EquipUpdater(prev, item, sSec, sIdx, sMod, isSplit, tSec, tIdx, tMod) ==
  IF tMod # -1
  THEN EquipToMod(prev, item, sSec, sIdx, sMod, tSec, tIdx, tMod)
  ELSE EquipToSlot(prev, item, sSec, sIdx, sMod, isSplit, tSec, tIdx)

\* Whether the updater stored a new object in loadout.augment, which is what
\* makes the resize effect run.
AugmentWritten(sSec, sIdx, sMod, tSec, tMod) ==
  \/ tSec = "augment" /\ tMod = -1
  \/ sSec = "augment" /\ sIdx # UNDEF /\ ~IsModSource(sMod)

\* handleItemEquip followed by the effects it triggers: the loadout in the
\* next settled state.
handleItemEquip(ld, item, sSec, sIdx, sMod, isSplit, tSec, tIdx, tMod) ==
  IF EquipRejected(ld, item, sSec, sIdx, sMod, tSec, tIdx, tMod) THEN ld
  ELSE LET r == EquipUpdater(ld, item, sSec, sIdx, sMod, isSplit, tSec, tIdx, tMod) IN
       IF r.same THEN ld
       ELSE IF AugmentWritten(sSec, sIdx, sMod, tSec, tMod) THEN ResizeEffect(r.ld) ELSE r.ld

\* ------------------------------------------------------ unequip updaters
\* The updater shared by handleInventoryDrop, handleTouchInventoryDrop and
\* handleSlotClick: remove the whole content of a location.
RemoveAt(prev, sec, idx, modIdx) ==
  LET cleared == IF IsModSource(modIdx)
                 THEN ClearMod(prev, sec, idx, modIdx)
                 ELSE setItem(prev, sec, idx, NULL)
  IN IF sec = "augment" THEN ResizeEffect(EvictShield(cleared)) ELSE cleared

\* Fault variant of handleInventoryDrop: the drop changes nothing.
handleInventoryDrop_Ignored(ld, sSec, sIdx, sMod) == ld

\* handleInventoryDrop's effect on the loadout (drop data = drag session).
handleInventoryDrop(ld, sSec, sIdx, sMod) ==
  IF sSec = "inventory" THEN ld
  ELSE IF sIdx = UNDEF THEN ld
  ELSE RemoveAt(ld, sSec, sIdx, sMod)

\* handleTouchInventoryDrop's effect on the loadout.
handleTouchInventoryDrop(ld, sSec, sIdx, sMod) ==
  IF sSec = "inventory" THEN ld
  ELSE IF sIdx = UNDEF THEN ld
  ELSE RemoveAt(ld, sSec, sIdx, sMod)

\* handleAppDrop's effect on the loadout: the dragged count is subtracted.
handleAppDrop(ld, item, sSec, sIdx, sMod) ==
  IF sSec # "inventory" /\ sIdx # UNDEF
  THEN LET cleared == IF IsModSource(sMod)
                      THEN ClearMod(ld, sSec, sIdx, sMod)
                      ELSE TakeFromSource(ld, sSec, sIdx, CountOr1(item))
       IN IF sSec = "augment" THEN ResizeEffect(EvictShield(cleared)) ELSE cleared
  ELSE ld

\* handleSlotClick with the shift key held.
handleSlotClick(ld, sec, idx, modIdx) ==
  IF IsFixedExtra(ld, sec, idx) THEN ld
  ELSE RemoveAt(ld, sec, idx, modIdx)

\* ------------------------------------------------------------ count edits
\* The value of a slot's count input: the empty string or the integer that
\* parseInt reads from it.
RawValue(empty, val) == [empty |-> empty, val |-> val]

\* handleCountChange of renderSlot(sec, idx) on the stack shown there.  The
\* empty value leaves the count absent.
handleCountChange(ld, sec, idx, currentItem, rawValue) ==
  IF rawValue.empty THEN setItem(ld, sec, idx, [currentItem EXCEPT !.count = 0])
  ELSE IF rawValue.val <= 0
  THEN setItem(ld, sec, idx, [currentItem EXCEPT !.count = rawValue.val])
  ELSE IF StackSize(currentItem) # 0 /\ rawValue.val > StackSize(currentItem)
  THEN setItem(ld, sec, idx, [currentItem EXCEPT !.count = StackSize(currentItem)])
  ELSE setItem(ld, sec, idx, [currentItem EXCEPT !.count = rawValue.val])

\* handleCountBlur of renderSlot(sec, idx); the input shows the count of the
\* stack in the slot, nothing for an absent count.
handleCountBlur(ld, sec, idx) ==
  IF getItem(ld, sec, idx).count <= 0 THEN setItem(ld, sec, idx, NULL) ELSE ld

\* ----------------------------------------------------------- persistence
\* A SerializedItem is [id, count, mods]; count 0 stands for an absent
\* count, an empty mods for an absent or empty modifications array, SNULL
\* for null.  A SerializedLoadout holds the two single items and the five
\* arrays; an absent array is the empty one (deserializeLoadout reads both
\* alike).  The title is left out.
SNULL == [id |-> "null", count |-> 0, mods |-> << >>]

\* mapItem of serializeLoadout.
serializeMapItem(item) ==
  IF item = NULL THEN SNULL
  ELSE [id |-> item.id, count |-> item.count,
        mods |-> [k \in 1..Len(item.mods) |->
                    IF item.mods[k] = NULL THEN SNULL
                    ELSE [id |-> item.mods[k].id, count |-> 1, mods |-> << >>]]]

\* trim: drop the trailing nulls.
RECURSIVE trim(_)
trim(arr) ==
  IF Len(arr) = 0 THEN arr
  ELSE IF arr[Len(arr)] = SNULL THEN trim(SubSeq(arr, 1, Len(arr) - 1))
  ELSE arr

serializeLoadout(current) ==
  [augment |-> serializeMapItem(current.augment),
   shield |-> serializeMapItem(current.shield),
   weapons |-> trim([i \in 1..Len(current.weapons) |-> serializeMapItem(current.weapons[i])]),
   backpack |-> trim([i \in 1..Len(current.backpack) |-> serializeMapItem(current.backpack[i])]),
   quickUse |-> trim([i \in 1..Len(current.quickUse) |-> serializeMapItem(current.quickUse[i])]),
   extra |-> trim([i \in 1..Len(current.extra) |-> serializeMapItem(current.extra[i])]),
   safePocket |-> trim([i \in 1..Len(current.safePocket) |-> serializeMapItem(current.safePocket[i])])]

\* pad: push nulls until the array has `size` cells; a longer array is kept.
pad(arr, size) ==
  IF Len(arr) >= size THEN arr
  ELSE arr \o [i \in 1..(size - Len(arr)) |-> NULL]

\* mapItem of deserializeLoadout.
deserializeMapItem(sItem) ==
  IF sItem = SNULL \/ sItem.id \notin ItemIds THEN NULL
  ELSE LET sup == Catalog[sItem.id].supportedModifications IN
       [id |-> sItem.id,
        count |-> IF sItem.count = 0 THEN 1 ELSE sItem.count,
        mods |-> IF Len(sup) = 0 THEN << >>
                 ELSE pad([k \in 1..Len(sItem.mods) |->
                             IF sItem.mods[k] = SNULL \/ sItem.mods[k].id \notin ItemIds THEN NULL
                             ELSE [id |-> sItem.mods[k].id, count |-> 1, mods |-> << >>,
                                   isIntegrated |-> FALSE]],
                          Len(sup)),
        isIntegrated |-> FALSE]

\* Fault variant of deserializeLoadout: an unknown id in the arrays fails
\* the restore, the loadout stays the initial one.
deserializeLoadout_FailOnUnknown(data) ==
  LET augment == deserializeMapItem(data.augment)
      map(arr) == [i \in 1..Len(arr) |-> deserializeMapItem(arr[i])]
      unknown(arr) == \E i \in 1..Len(arr) : arr[i] # SNULL /\ arr[i].id \notin ItemIds
  IN IF unknown(data.weapons) \/ unknown(data.backpack) \/ unknown(data.extra)
     THEN [augment |-> NULL, shield |-> NULL, weapons |-> << NULL, NULL >>,
           backpack |-> [i \in 1..DEFAULT_SLOTS.backpack |-> NULL],
           quickUse |-> [i \in 1..DEFAULT_SLOTS.quickUse |-> NULL],
           extra |-> << >>,
           safePocket |-> [i \in 1..DEFAULT_SLOTS.safePocket |-> NULL]]
     ELSE [augment |-> augment,
           shield |-> deserializeMapItem(data.shield),
           weapons |-> pad(map(data.weapons), 2),
           backpack |-> pad(map(data.backpack), SlotConfig(augment, "backpack", DEFAULT_SLOTS.backpack)),
           quickUse |-> pad(map(data.quickUse), SlotConfig(augment, "quick_use", DEFAULT_SLOTS.quickUse)),
           extra |-> pad(map(data.extra), extraSlotCount(augment)),
           safePocket |-> pad(map(data.safePocket), SlotConfig(augment, "safe_pocket", DEFAULT_SLOTS.safePocket))]

\* Fault variant of deserializeLoadout: the item counts are not restored.
deserializeLoadout_CountOne(data) ==
  LET augment == deserializeMapItem(data.augment)
      one(arr) == [i \in 1..Len(arr) |->
                     IF deserializeMapItem(arr[i]) = NULL THEN NULL
                     ELSE [deserializeMapItem(arr[i]) EXCEPT !.count = 1]]
  IN [augment |-> augment,
      shield |-> deserializeMapItem(data.shield),
      weapons |-> pad(one(data.weapons), 2),
      backpack |-> pad(one(data.backpack), SlotConfig(augment, "backpack", DEFAULT_SLOTS.backpack)),
      quickUse |-> pad(one(data.quickUse), SlotConfig(augment, "quick_use", DEFAULT_SLOTS.quickUse)),
      extra |-> pad(one(data.extra), extraSlotCount(augment)),
      safePocket |-> pad(one(data.safePocket), SlotConfig(augment, "safe_pocket", DEFAULT_SLOTS.safePocket))]

deserializeLoadout(data) ==
  LET augment == deserializeMapItem(data.augment)
      map(arr) == [i \in 1..Len(arr) |-> deserializeMapItem(arr[i])]
  IN [augment |-> augment,
      shield |-> deserializeMapItem(data.shield),
      weapons |-> pad(map(data.weapons), 2),
      backpack |-> pad(map(data.backpack), SlotConfig(augment, "backpack", DEFAULT_SLOTS.backpack)),
      quickUse |-> pad(map(data.quickUse), SlotConfig(augment, "quick_use", DEFAULT_SLOTS.quickUse)),
      extra |-> pad(map(data.extra), extraSlotCount(augment)),
      safePocket |-> pad(map(data.safePocket), SlotConfig(augment, "safe_pocket", DEFAULT_SLOTS.safePocket))]

\* The restore on mount followed by the effects it triggers: setLoadout of
\* the deserialized payload over the initial loadout; the resize effect runs
\* when loadout.augment is no longer the initial null.
RestoreOnMount(data) ==
  LET restored == deserializeLoadout(data) IN
  IF restored.augment # NULL THEN ResizeEffect(restored) ELSE restored

\* handleReset, confirmed.
handleReset == EmptyLoadout

\* ------------------------------------------------------ bill of materials
\* The recipe and craftQuantity fields of the catalog items; an id outside
\* the domain has none.  The rifle cannot be crafted.
Materials == {"metal", "cloth", "wire", "chip", "gear"}
Recipes ==
  [ gun |-> [metal |-> 3, gear |-> 1, chip |-> 1],
    muzzle |-> [metal |-> 1, wire |-> 2],
    ammo |-> [metal |-> 2],
    medium_shield |-> [wire |-> 3, cloth |-> 2] ]
CraftQuantities == [ ammo |-> 2 ]

\* item.recipe as a total map: 0 for a material the recipe does not name.
RecipeQty(id, m) ==
  IF id \in DOMAIN Recipes /\ m \in DOMAIN Recipes[id] THEN Recipes[id][m] ELSE 0
\* item.craftQuantity || 1
craftQuantityOr1(id) == IF id \in DOMAIN CraftQuantities THEN CraftQuantities[id] ELSE 1
\* Math.ceil(a / b) on positive integers.
Ceil(a, b) == (a + b - 1) \div b
\* Fault variant of numCrafts: the quotient is rounded down.
numCrafts_Floor(item) == CountOr1(item) \div craftQuantityOr1(item.id)
\* Math.ceil((item.count || 1) / craftQuantity)
numCrafts(item) == Ceil(CountOr1(item), craftQuantityOr1(item.id))

\* addItemRecipe over totals, a map from every material to its running
\* total (0 = no entry yet); addItems is the forEach over an array.
RECURSIVE addItemRecipe(_, _)
RECURSIVE addItems(_, _)
addItems(totals, items) ==
  IF Len(items) = 0 THEN totals
  ELSE addItems(addItemRecipe(totals, Head(items)), Tail(items))
addItemRecipe(totals, item) ==
  IF item = NULL \/ item.id \notin DOMAIN Recipes THEN totals
  ELSE addItems([m \in Materials |-> totals[m] + RecipeQty(item.id, m) * numCrafts(item)],
                item.mods)

\* The totals of getLootTable.
getLootTable(ld) ==
  addItems([m \in Materials |-> 0],
           << ld.augment, ld.shield >> \o ld.weapons \o ld.backpack \o ld.quickUse
             \o ld.extra \o ld.safePocket)

\* ----------------------------------------------------------- recycle list
\* The rarity field of the materials' catalog entries; an id outside the
\* domain has no entry (`mat?.rarity || 'Common'`).
MaterialRarity ==
  [ metal |-> "Common", cloth |-> "Uncommon", wire |-> "Rare", chip |-> "Epic",
    gear |-> "Legendary", dust |-> "Junk" ]
\* Object.values(allItemData), the entries that matter to getRecycleList:
\* recyclable tells whether the category list includes 'Recyclable',
\* recyclesInto is the yield map (empty = absent).
Yield(id, recyclable, into) == [id |-> id, recyclable |-> recyclable, recyclesInto |-> into]
NoYield == [m \in {} |-> 0]
RecycleCatalog ==
  << Yield("scrap_a", TRUE, [metal |-> 1]),
     Yield("scrap_b", TRUE, [metal |-> 2]),
     Yield("cable", TRUE, [wire |-> 20]),
     Yield("scrap_c", TRUE, [metal |-> 3]),
     Yield("rag", TRUE, [cloth |-> 1, dust |-> 5]),
     Yield("scrap_d", TRUE, [metal |-> 1, scrap |-> 4]),
     Yield("board", TRUE, [chip |-> 2, wire |-> 1]),
     Yield("crate", FALSE, [metal |-> 9]),
     Yield("scrap_e", TRUE, [metal |-> 5]),
     Yield("clock", TRUE, [gear |-> 3]),
     Yield("husk", TRUE, NoYield),
     Yield("scrap_f", TRUE, [metal |-> 2, cloth |-> 2]),
     Yield("scrap_g", TRUE, [metal |-> 4]),
     Yield("scrap_h", TRUE, [metal |-> 1, wire |-> 1]),
     Yield("scrap_i", TRUE, [metal |-> 6]),
     Yield("scrap_j", TRUE, [metal |-> 1, gear |-> 1]) >>

\* The switch on the material's rarity.
weight(matId) ==
  LET rarity == IF matId \in DOMAIN MaterialRarity THEN MaterialRarity[matId] ELSE "Common" IN
  CASE rarity = "Uncommon" -> 2
    [] rarity = "Rare" -> 4
    [] rarity = "Epic" -> 8
    [] rarity = "Legendary" -> 16
    [] OTHER -> 1

\* requiredMap.has(matId): the loot table has a row for the material.
Required(totals, matId) == matId \in DOMAIN totals /\ totals[matId] > 0

\* Fault variant of useful: the yield is not clamped to the requirement.
useful_Unclamped(count, reqCount) == count

\* Math.min(count, reqCount)
useful(count, reqCount) == Min(count, reqCount)

\* The forEach over Object.entries(item.recyclesInto), on the materials
\* still to visit.
RECURSIVE scoreOver(_, _, _)
scoreOver(into, mats, totals) ==
  IF mats = {} THEN 0
  ELSE LET matId == CHOOSE m \in mats : TRUE IN
       (IF Required(totals, matId) THEN useful(into[matId], totals[matId]) * weight(matId) ELSE 0)
       + scoreOver(into, mats \ {matId}, totals)
score(item, totals) == scoreOver(item.recyclesInto, DOMAIN item.recyclesInto, totals)

\* candidates, scored, with the zero scores filtered out, in catalog order.
RECURSIVE scoredFrom(_, _)
scoredFrom(k, totals) ==
  IF k > Len(RecycleCatalog) THEN << >>
  ELSE LET item == RecycleCatalog[k] IN
       (IF item.recyclable /\ DOMAIN item.recyclesInto # {} /\ score(item, totals) > 0
        THEN << [id |-> item.id, score |-> score(item, totals)] >>
        ELSE << >>)
       \o scoredFrom(k + 1, totals)

\* Array.prototype.sort((a, b) => b.score - a.score): stable, descending.
RECURSIVE insertDesc(_, _)
insertDesc(sorted, x) ==
  IF Len(sorted) = 0 THEN << x >>
  ELSE IF Head(sorted).score >= x.score THEN << Head(sorted) >> \o insertDesc(Tail(sorted), x)
  ELSE << x >> \o sorted
RECURSIVE sortDesc(_, _)
sortDesc(arr, sorted) ==
  IF Len(arr) = 0 THEN sorted ELSE sortDesc(Tail(arr), insertDesc(sorted, Head(arr)))

\* The ids of getRecycleList's result for the loot table `totals`.
getRecycleList(totals) ==
  LET ranked == sortDesc(scoredFrom(1, totals), << >>)
      top == SubSeq(ranked, 1, Min(Len(ranked), 10))
  IN [i \in 1..Len(top) |-> top[i].id]

\* ------------------------------------------------------- tiered recipes
\* An item id is [base, tier]: tier is the suffix the pattern
\* /^(.+)_(i|ii|iii|iv|v)$/ captures and base what precedes it, tier "" for
\* an id the pattern does not match.  A recipe or upgradeCost field is
\* [has, qty]: has = the field is there, qty its quantities.
tiers == << "i", "ii", "iii", "iv", "v" >>
Id(base, tier) == [base |-> base, tier |-> tier]
Undefined == [has |-> FALSE, qty |-> [m \in {} |-> 0]]
Costs(qty) == [has |-> TRUE, qty |-> qty]
\* tiers.indexOf(tierStr) + 1
targetTier(tierStr) == CHOOSE t \in 1..Len(tiers) : tiers[t] = tierStr

\* Fault variant of costs: every tier contributes its recipe.
costs_AlwaysRecipe(currentItem, i) == currentItem.recipe

\* i === 0 ? currentItem.recipe : currentItem.upgradeCost
costs(currentItem, i) == IF i = 0 THEN currentItem.recipe ELSE currentItem.upgradeCost

\* combinedRecipe[key] = (combinedRecipe[key] || 0) + val, for every entry.
addCosts(combinedRecipe, qty) ==
  [key \in DOMAIN combinedRecipe \cup DOMAIN qty |->
     (IF key \in DOMAIN combinedRecipe THEN combinedRecipe[key] ELSE 0)
     + (IF key \in DOMAIN qty THEN qty[key] ELSE 0)]

\* The for loop of resolveRecipe from index i on.
RECURSIVE combineFrom(_, _, _, _, _)
combineFrom(itemMap, baseName, i, target, combinedRecipe) ==
  IF i >= target THEN combinedRecipe
  ELSE LET currentId == Id(baseName, tiers[i + 1]) IN
       IF currentId \notin DOMAIN itemMap
       THEN combineFrom(itemMap, baseName, i + 1, target, combinedRecipe)
       ELSE LET c == costs(itemMap[currentId], i) IN
            combineFrom(itemMap, baseName, i + 1, target,
                        IF c.has THEN addCosts(combinedRecipe, c.qty) ELSE combinedRecipe)

resolveRecipe(itemMap, id) ==
  IF id.tier = "" THEN itemMap[id].recipe
  ELSE IF Id(id.base, "i") \notin DOMAIN itemMap THEN itemMap[id].recipe
  ELSE Costs(combineFrom(itemMap, id.base, 0, targetTier(id.tier), [m \in {} |-> 0]))

\* ------------------------------------------------------------ drag start
\* Fault variant of DragItem: a stack pulled from the inventory is one unit.
DragItem_InventoryOne(item, sSec, altKey) ==
  IF sSec = "inventory" /\ StackSize(item) # 0
  THEN [item EXCEPT !.count = 1]
  ELSE IF sSec # "inventory" /\ altKey /\ StackSize(item) # 0 /\ CountOr1(item) > 1
  THEN [item EXCEPT !.count = CountOr1(item) \div 2]
  ELSE IF sSec # "inventory" /\ item.count = 0
  THEN [item EXCEPT !.count = 1]
  ELSE item

\* Fault variant of DragItem: the split modifier halves every stack.
DragItem_SplitAlways(item, sSec, altKey) ==
  IF sSec = "inventory" /\ StackSize(item) # 0
  THEN [item EXCEPT !.count = StackSize(item)]
  ELSE IF sSec # "inventory" /\ altKey
  THEN [item EXCEPT !.count = CountOr1(item) \div 2]
  ELSE IF sSec # "inventory" /\ item.count = 0
  THEN [item EXCEPT !.count = 1]
  ELSE item

\* Fault variant of DragIsSplit: a stack of one is split too.
DragIsSplit_NoCountTest(item, sSec, altKey) ==
  sSec # "inventory" /\ altKey /\ StackSize(item) # 0

\* The dragged stack and split flag computed by handleDragStart.
DragItem(item, sSec, altKey) ==
  IF sSec = "inventory" /\ StackSize(item) # 0
  THEN [item EXCEPT !.count = StackSize(item)]
  ELSE IF sSec # "inventory" /\ altKey /\ StackSize(item) # 0 /\ CountOr1(item) > 1
  THEN [item EXCEPT !.count = CountOr1(item) \div 2]
  ELSE IF sSec # "inventory" /\ item.count = 0
  THEN [item EXCEPT !.count = 1]
  ELSE item

DragIsSplit(item, sSec, altKey) ==
  sSec # "inventory" /\ altKey /\ StackSize(item) # 0 /\ CountOr1(item) > 1

\* The dragged stack computed by handleTouchStart (no split on touch).
TouchDragItem(item, sSec) ==
  IF sSec = "inventory" /\ StackSize(item) # 0
  THEN [item EXCEPT !.count = StackSize(item)]
  ELSE IF sSec # "inventory" /\ item.count = 0
  THEN [item EXCEPT !.count = 1]
  ELSE item

\* ----------------------------------------------------------------- state
VARIABLES
  loadout,        \* LoadoutState (App.tsx useState)
  draggedItem,    \* hook state: dragged stack or NULL
  dragSource,     \* hook state: source descriptor or NoSource
  activeSlot,     \* hook state: latched target or NoSlot
  dropValidity,   \* hook state: "valid" | "invalid" | "null"
  touchStartPos,  \* hook ref: TRUE while a touch position is recorded
  autoScrollInterval, \* hook ref: TRUE while the touch auto-scroll timer runs
  last            \* the last mutation handler run: its inputs and the loadout before it

vars == << loadout, draggedItem, dragSource, activeSlot, dropValidity,
           touchStartPos, autoScrollInterval, last >>

NoSource == [section |-> "null", index |-> UNDEF, modIndex |-> UNDEF, isSplit |-> FALSE]
NoSlot == [section |-> "null", index |-> UNDEF, modIndex |-> UNDEF]
Source(sec, idx, modIdx, split) == [section |-> sec, index |-> idx, modIndex |-> modIdx, isSplit |-> split]
Slot(sec, idx, modIdx) == [section |-> sec, index |-> idx, modIndex |-> modIdx]

NoOp == [op |-> "none", item |-> NULL, src |-> NoSource, tgt |-> NoSlot, pre |-> EmptyLoadout]
Op(name, item, src, tgt, pre) == [op |-> name, item |-> item, src |-> src, tgt |-> tgt, pre |-> pre]

\* Indices of a pool that gestures reach.
Reach(sec) == IF sec = "backpack" THEN MaxBackpackIdx ELSE MaxPoolIdx
PoolIdx(ld, sec) == 0 .. (Min(Len(ld[sec]), Reach(sec)) - 1)

\* Rendered slots (renderSlot): [section, index, modIndex], modIndex UNDEF
\* for the slot itself.
PlainSlots(ld) ==
  { Slot("augment", -1, UNDEF), Slot("shield", -1, UNDEF) }
  \cup { Slot("weapons", i, UNDEF) : i \in 0..1 }
  \cup UNION { { Slot(sec, i, UNDEF) : i \in PoolIdx(ld, sec) }
               : sec \in {"backpack", "quickUse", "extra", "safePocket"} }

ModSlots(ld) ==
  UNION { IF At(ld.weapons, i) = NULL THEN {}
          ELSE { Slot("weapons", i, m) : m \in 0 .. (Len(SupportedModifications(At(ld.weapons, i))) - 1) }
          : i \in 0..1 }

RenderedSlots(ld) == PlainSlots(ld) \cup ModSlots(ld)

\* The stack shown in a rendered slot.
SlotContent(ld, slot) ==
  IF slot.modIndex = UNDEF THEN getItem(ld, slot.section, slot.index)
  ELSE ModAt(At(ld.weapons, slot.index), slot.modIndex)

Init ==
  /\ loadout = EmptyLoadout
  /\ draggedItem = NULL
  /\ dragSource = NoSource
  /\ activeSlot = NoSlot
  /\ dropValidity = "null"
  /\ touchStartPos = FALSE
  /\ autoScrollInterval = FALSE
  /\ last = NoOp

\* Fault variant of ClearSession: the latch and its verdict survive.
ClearSession_KeepLatch ==
  /\ draggedItem' = NULL
  /\ dragSource' = NoSource
  /\ UNCHANGED << activeSlot, dropValidity >>

\* The four resets at the end of a session.
ClearSession ==
  /\ draggedItem' = NULL
  /\ dropValidity' = "null"
  /\ activeSlot' = NoSlot
  /\ dragSource' = NoSource

\* Number of slot stacks in the loadout; the integrated items of the extra
\* pool are not the user's.
RECURSIVE SeqOccupied(_, _)
SeqOccupied(arr, own) ==
  IF Len(arr) = 0 THEN 0
  ELSE (IF Head(arr) = NULL \/ (~own /\ Head(arr).isIntegrated) THEN 0 ELSE 1)
       + SeqOccupied(Tail(arr), own)
OccupiedCount(ld) ==
  SeqOccupied(<< ld.augment, ld.shield >>, TRUE) + SeqOccupied(ld.weapons, TRUE)
  + SeqOccupied(ld.backpack, TRUE) + SeqOccupied(ld.quickUse, TRUE)
  + SeqOccupied(ld.extra, FALSE) + SeqOccupied(ld.safePocket, TRUE)

\* A mutation handler committed newLd.
Commit(newLd) ==
  /\ OccupiedCount(newLd) <= MaxItems
  /\ loadout' = newLd

\* The record of a gesture is observed and discarded before the next event
\* is handled.
Ready == last = NoOp
PointerSession == Ready /\ draggedItem # NULL /\ ~touchStartPos
Idle == Ready /\ draggedItem = NULL /\ ~touchStartPos

\* The latch update shared by handleTouchMove and handleLoadoutPanelDragOver.
Latch(key) ==
  IF activeSlot = NoSlot \/ activeSlot.section # key.section
     \/ activeSlot.index # key.index \/ activeSlot.modIndex # key.modIndex
  THEN /\ activeSlot' = key
       /\ dropValidity' = IF canEquip(loadout, draggedItem, key.section, key.index, key.modIndex)
                          THEN "valid" ELSE "invalid"
  ELSE UNCHANGED << activeSlot, dropValidity >>

Unlatch ==
  /\ activeSlot' = NoSlot
  /\ dropValidity' = "null"

\* ------------------------------------------------------ pointer targeting
\* Distance below which handleLoadoutPanelDragOver latches a slot.
threshold == 80
\* minDistance before the first centre is visited.
Infinity == 1000000
\* Distance between neighbouring slot centres.
SlotPitch == 100

\* The keys of slotCenters in the order the slots register: equipment row,
\* then the pools; a modification slot registers before the weapon slot that
\* contains it.  Pool slots gestures do not reach are far from every pointer
\* position considered.
ModKeys(ld, i) ==
  IF At(ld.weapons, i) = NULL THEN << >>
  ELSE [m \in 1..Len(SupportedModifications(At(ld.weapons, i))) |-> Slot("weapons", i, m - 1)]
PoolKeys(ld, sec) ==
  [k \in 1..Min(Len(ld[sec]), Reach(sec)) |-> Slot(sec, k - 1, UNDEF)]
slotKeys(ld) ==
  << Slot("augment", -1, UNDEF), Slot("shield", -1, UNDEF) >>
    \o ModKeys(ld, 0) \o << Slot("weapons", 0, UNDEF) >>
    \o ModKeys(ld, 1) \o << Slot("weapons", 1, UNDEF) >>
    \o PoolKeys(ld, "backpack") \o PoolKeys(ld, "quickUse")
    \o PoolKeys(ld, "extra") \o PoolKeys(ld, "safePocket")

\* The snapshotted centre of the i-th registered slot: the centres lie on
\* one line, SlotPitch apart.
Center(i) == SlotPitch * (i - 1)
\* Math.sqrt(dx^2 + dy^2) with the pointer on the line of centres.
Dist(x, c) == IF x >= c THEN x - c ELSE c - x
\* Pointer positions: on a centre, halfway to the next one, and before the
\* first centre at and just inside the threshold.
PointerXs(ld) ==
  {0 - threshold, 1 - threshold}
    \cup {Center(i) + off : i \in 1..Len(slotKeys(ld)), off \in {0, SlotPitch \div 2}}

\* The forEach loop of handleLoadoutPanelDragOver from the i-th centre on.
RECURSIVE ClosestFrom(_, _, _, _)
ClosestFrom(keys, i, x, best) ==
  IF i > Len(keys) THEN best
  ELSE LET dist == Dist(x, Center(i)) IN
       ClosestFrom(keys, i + 1, x,
                   IF dist < best.minDistance
                   THEN [closestKey |-> keys[i], minDistance |-> dist]
                   ELSE best)
\* Fault variant of Closest: of the centres at the least distance, the one
\* registered last is taken.
Closest_LastWins(keys, x) ==
  LET first == ClosestFrom(keys, 1, x, [closestKey |-> NoSlot, minDistance |-> Infinity])
      ties == { k \in 1..Len(keys) : Dist(x, Center(k)) = first.minDistance }
  IN IF ties = {} THEN first
     ELSE [closestKey |-> keys[CHOOSE k \in ties : \A j \in ties : j <= k],
           minDistance |-> first.minDistance]

Closest(keys, x) == ClosestFrom(keys, 1, x, [closestKey |-> NoSlot, minDistance |-> Infinity])

\* Fault variant of handleLoadoutPanelDragOver: a centre at the threshold
\* still latches.
handleLoadoutPanelDragOver_Inclusive(x) ==
  IF draggedItem = NULL THEN UNCHANGED << activeSlot, dropValidity >>
  ELSE LET c == Closest(slotKeys(loadout), x) IN
       IF c.closestKey # NoSlot /\ c.minDistance <= threshold
       THEN Latch(c.closestKey)
       ELSE Unlatch

\* handleLoadoutPanelDragOver's effect on the latch, pointer at x.
handleLoadoutPanelDragOver(x) ==
  IF draggedItem = NULL THEN UNCHANGED << activeSlot, dropValidity >>
  ELSE LET c == Closest(slotKeys(loadout), x) IN
       IF c.closestKey # NoSlot /\ c.minDistance < threshold
       THEN Latch(c.closestKey)
       ELSE Unlatch

\* The stack renderSlot shows in slot (section, index): the remainder while
\* a split drag from that slot is in flight.
displayItem(ld, dItem, dSrc, section, index) ==
  LET item == getItem(ld, section, index) IN
  IF dSrc # NoSource /\ dSrc.section = section /\ dSrc.index = index /\ dSrc.isSplit
     /\ item # NULL /\ dItem # NULL
  THEN [item EXCEPT !.count = CountOr1(item) - CountOr1(dItem)]
  ELSE item

\* dragstart on an inventory row.  The browser runs one pointer drag at a
\* time: dragend is delivered before the next dragstart.
DragStartInventory ==
  \E id \in InventoryIds, altKey \in BOOLEAN :
    /\ Idle
    /\ draggedItem' = DragItem(CatalogItem(id), "inventory", altKey)
    /\ dragSource' = Source("inventory", UNDEF, UNDEF, DragIsSplit(CatalogItem(id), "inventory", altKey))
    /\ last' = Op(IF altKey THEN "dragStartAlt" ELSE "dragStart", CatalogItem(id), dragSource', NoSlot, loadout)
    /\ UNCHANGED << loadout, activeSlot, dropValidity, touchStartPos, autoScrollInterval >>

\* Fault variant of DragStartSlot: the dragged count leaves the source slot
\* when the drag starts.
DragStartSlot_TakeAtStart ==
  \E slot \in RenderedSlots(loadout), altKey \in BOOLEAN :
    LET item == SlotContent(loadout, slot) IN
    /\ Idle
    /\ item # NULL
    /\ ~(slot.modIndex = UNDEF /\ IsFixedExtra(loadout, slot.section, slot.index))
    /\ draggedItem' = DragItem(item, slot.section, altKey)
    /\ dragSource' = Source(slot.section, slot.index, slot.modIndex, DragIsSplit(item, slot.section, altKey))
    /\ last' = Op(IF altKey THEN "dragStartAlt" ELSE "dragStart", item, dragSource', NoSlot, loadout)
    /\ loadout' = IF slot.modIndex = UNDEF
                  THEN TakeFromSource(loadout, slot.section, slot.index, CountOr1(draggedItem'))
                  ELSE loadout
    /\ UNCHANGED << activeSlot, dropValidity, touchStartPos, autoScrollInterval >>

\* dragstart on the stack shown in a loadout slot or modification slot
\* (a fixed extra slot is not draggable).
DragStartSlot ==
  \E slot \in RenderedSlots(loadout), altKey \in BOOLEAN :
    LET item == SlotContent(loadout, slot) IN
    /\ Idle
    /\ item # NULL
    /\ ~(slot.modIndex = UNDEF /\ IsFixedExtra(loadout, slot.section, slot.index))
    /\ draggedItem' = DragItem(item, slot.section, altKey)
    /\ dragSource' = Source(slot.section, slot.index, slot.modIndex, DragIsSplit(item, slot.section, altKey))
    /\ last' = Op(IF altKey THEN "dragStartAlt" ELSE "dragStart", item, dragSource', NoSlot, loadout)
    /\ UNCHANGED << loadout, activeSlot, dropValidity, touchStartPos, autoScrollInterval >>

\* dragend; the record keeps the slot that was latched.
DragEnd ==
  /\ PointerSession
  /\ ClearSession
  /\ last' = Op("dragEnd", NULL, NoSource, activeSlot, loadout)
  /\ UNCHANGED << loadout, touchStartPos, autoScrollInterval >>

\* dragover on a rendered slot or modification slot (renderSlot's onDragOver).
SlotDragOver ==
  \E slot \in RenderedSlots(loadout) :
    /\ PointerSession
    /\ dropValidity' = IF canEquip(loadout, draggedItem, slot.section, slot.index, slot.modIndex)
                       THEN "valid" ELSE "invalid"
    /\ activeSlot' = slot
    /\ UNCHANGED << loadout, draggedItem, dragSource, touchStartPos, autoScrollInterval, last >>

\* dragover on the app container outside the panels (handleDragOver).
AppDragOver ==
  /\ PointerSession
  /\ Unlatch
  /\ UNCHANGED << loadout, draggedItem, dragSource, touchStartPos, autoScrollInterval, last >>

\* dragover on the loadout panel outside the slots, pointer at x.
PanelDragOverAt(x) ==
  /\ handleLoadoutPanelDragOver(x)
  /\ UNCHANGED << loadout, draggedItem, dragSource, touchStartPos, autoScrollInterval >>

PanelDragOver ==
  /\ PointerSession
  /\ \E x \in PointerXs(loadout) : PanelDragOverAt(x)
  /\ UNCHANGED last

\* handleSlotDrop with the drag's transfer data, then handleItemEquip.
DropOn(slot) ==
  LET tIdx == DefaultNeg1(slot.index)
      tMod == DefaultNeg1(slot.modIndex)
      rejected == EquipRejected(loadout, draggedItem, dragSource.section, dragSource.index,
                                dragSource.modIndex, slot.section, tIdx, tMod)
  IN
  /\ Commit(handleItemEquip(loadout, draggedItem, dragSource.section, dragSource.index,
                            dragSource.modIndex, dragSource.isSplit, slot.section, tIdx, tMod))
  /\ IF rejected
     THEN UNCHANGED << draggedItem, dragSource, activeSlot, dropValidity >>
     ELSE ClearSession
  /\ last' = Op("equip", draggedItem, dragSource, Slot(slot.section, tIdx, tMod), loadout)
  /\ UNCHANGED << touchStartPos, autoScrollInterval >>

\* drop on a rendered slot or modification slot; handleSlotDrop does not
\* read the latch.
SlotDrop ==
  \E slot \in RenderedSlots(loadout) :
    /\ PointerSession
    /\ DropOn(slot)

\* The same drop in the browser's event order: after the dragover on the
\* element, which latched it.
SlotDropAfterDragOver ==
  \E slot \in RenderedSlots(loadout) :
    /\ PointerSession
    /\ activeSlot = slot
    /\ DropOn(slot)

\* drop on the loadout panel outside the slots (handleLoadoutPanelDrop).
PanelDrop ==
  /\ PointerSession
  /\ IF activeSlot # NoSlot
     THEN DropOn(activeSlot)
     ELSE /\ last' = Op("panelDrop", draggedItem, dragSource, NoSlot, loadout)
          /\ UNCHANGED << loadout, draggedItem, dragSource, activeSlot, dropValidity,
                          touchStartPos, autoScrollInterval >>

\* drop on the inventory panel; its dragover leaves the latch alone.
InventoryDrop ==
  /\ PointerSession
  /\ Commit(handleInventoryDrop(loadout, dragSource.section, dragSource.index, dragSource.modIndex))
  /\ IF dragSource.section = "inventory"
     THEN UNCHANGED << draggedItem, dragSource, activeSlot, dropValidity >>
     ELSE ClearSession
  /\ last' = Op("inventoryDrop", draggedItem, dragSource, NoSlot, loadout)
  /\ UNCHANGED << touchStartPos, autoScrollInterval >>

\* drop on the app container outside the panels; it follows a dragover on
\* the container, which cleared the latch.
AppDrop ==
  /\ PointerSession
  /\ activeSlot = NoSlot
  /\ Commit(handleAppDrop(loadout, draggedItem, dragSource.section, dragSource.index, dragSource.modIndex))
  /\ ClearSession
  /\ last' = Op("appDrop", draggedItem, dragSource, NoSlot, loadout)
  /\ UNCHANGED << touchStartPos, autoScrollInterval >>

\* shift+click on a rendered slot or modification slot
SlotClick ==
  \E slot \in RenderedSlots(loadout) :
    /\ Idle
    /\ Commit(handleSlotClick(loadout, slot.section, DefaultNeg1(slot.index), DefaultNeg1(slot.modIndex)))
    /\ last' = Op("click", NULL, NoSource, Slot(slot.section, DefaultNeg1(slot.index), DefaultNeg1(slot.modIndex)), loadout)
    /\ UNCHANGED << draggedItem, dragSource, activeSlot, dropValidity, touchStartPos, autoScrollInterval >>

\* ----------------------------------------------------------------- touch
TouchSession == Ready /\ draggedItem # NULL /\ touchStartPos

\* handleTouchStart on `item` at the source location.
TouchStartOn(item, sSec, sIdx, sMod) ==
  /\ draggedItem' = TouchDragItem(item, sSec)
  /\ dragSource' = Source(sSec, sIdx, sMod, FALSE)
  /\ touchStartPos' = TRUE
  /\ autoScrollInterval' = TRUE
  /\ last' = Op("touchStart", item, dragSource', NoSlot, loadout)
  /\ UNCHANGED << loadout, activeSlot, dropValidity >>

\* touchstart on an inventory row
TouchStartInventory ==
  \E id \in InventoryIds :
    /\ Idle
    /\ TouchStartOn(CatalogItem(id), "inventory", UNDEF, UNDEF)

\* touchstart on the stack shown in a loadout slot or modification slot
TouchStartSlot ==
  \E slot \in RenderedSlots(loadout) :
    /\ Idle
    /\ SlotContent(loadout, slot) # NULL
    /\ TouchStartOn(SlotContent(loadout, slot), slot.section, slot.index, slot.modIndex)

\* touchstart of a second finger while a touch session is in flight
SecondTouchStart ==
  /\ TouchSession
  /\ \/ \E id \in InventoryIds : TouchStartOn(CatalogItem(id), "inventory", UNDEF, UNDEF)
     \/ \E slot \in RenderedSlots(loadout) :
          /\ SlotContent(loadout, slot) # NULL
          /\ TouchStartOn(SlotContent(loadout, slot), slot.section, slot.index, slot.modIndex)

\* Number of parts of a slot key: key.split('|').length
KeyParts(slot) == IF slot.modIndex = UNDEF THEN 2 ELSE 3

\* The registered slots whose rectangle contains a touch point aimed at
\* `at`: the slot itself and, for a modification slot, the weapon slot that
\* contains it; nothing when the point is on no slot.
HitsAt(at) ==
  IF at = NoSlot THEN {}
  ELSE IF at.modIndex = UNDEF THEN {at}
  ELSE {at, Slot(at.section, at.index, UNDEF)}

\* Fault variant of ClosestKeys: any hit slot may become the candidate.
ClosestKeys_AnyHit(hits) == hits

\* closestKey of handleTouchMove: a hit slot no other hit slot is deeper than.
ClosestKeys(hits) == { k \in hits : \A h \in hits : KeyParts(h) <= KeyParts(k) }

\* handleTouchMove beyond the drag threshold, the touch point aimed at `at`;
\* overScrollZone: the element under the point is in the footer buttons or
\* the inventory container.
TouchMoveAt(at, overScrollZone) ==
  /\ IF ~overScrollZone /\ HitsAt(at) # {}
     THEN \E key \in ClosestKeys(HitsAt(at)) : Latch(key)
     ELSE Unlatch
  /\ UNCHANGED << loadout, draggedItem, dragSource, touchStartPos, autoScrollInterval >>

\* touchmove beyond the drag threshold
TouchMove ==
  /\ TouchSession
  /\ \E at \in RenderedSlots(loadout) \cup {NoSlot}, overScrollZone \in BOOLEAN :
       TouchMoveAt(at, overScrollZone)
  /\ UNCHANGED last

\* touchend: drop on the latched slot, or unequip over the inventory panel
TouchEnd ==
  \E overInventory \in BOOLEAN :
    /\ Ready
    /\ touchStartPos
    /\ IF activeSlot # NoSlot /\ draggedItem # NULL
       THEN /\ Commit(handleItemEquip(loadout, draggedItem, dragSource.section, dragSource.index,
                                      dragSource.modIndex, dragSource.isSplit, activeSlot.section,
                                      DefaultNeg1(activeSlot.index), DefaultNeg1(activeSlot.modIndex)))
            /\ last' = Op("equip", draggedItem, dragSource,
                          Slot(activeSlot.section, DefaultNeg1(activeSlot.index), DefaultNeg1(activeSlot.modIndex)),
                          loadout)
       ELSE IF activeSlot = NoSlot /\ draggedItem # NULL /\ dragSource # NoSource
               /\ dragSource.section # "inventory" /\ overInventory
       THEN /\ Commit(handleTouchInventoryDrop(loadout, dragSource.section, dragSource.index, dragSource.modIndex))
            /\ last' = Op("touchInventoryDrop", draggedItem, dragSource, NoSlot, loadout)
       ELSE /\ UNCHANGED loadout
            /\ last' = Op("touchCancel", draggedItem, dragSource, NoSlot, loadout)
    /\ ClearSession
    /\ touchStartPos' = FALSE
    /\ autoScrollInterval' = FALSE

\* Bookkeeping: discard the record of the last gesture.
Observe ==
  /\ last # NoOp
  /\ last' = NoOp
  /\ UNCHANGED << loadout, draggedItem, dragSource, activeSlot, dropValidity,
                  touchStartPos, autoScrollInterval >>

Next ==
  \/ DragStartInventory
  \/ DragStartSlot
  \/ DragEnd
  \/ SlotDrop
  \/ InventoryDrop
  \/ AppDrop
  \/ SlotClick
  \/ TouchStartInventory
  \/ TouchStartSlot
  \/ TouchMove
  \/ TouchEnd
  \/ Observe

Spec == Init /\ [][Next]_vars

\* ======================================================================
\* One drag session at a time over a bounded set of loadouts, with the
\* pointer's dragover events and a second finger
\* ======================================================================
\* Slots the loadouts below are filled through.
SessionTargets ==
  { Slot("augment", -1, -1), Slot("shield", -1, -1), Slot("weapons", 0, -1),
    Slot("weapons", 0, 0), Slot("backpack", 0, -1), Slot("backpack", 1, -1) }
\* The loadouts one drop from the inventory leads to.
EquipFromInventory(ld) ==
  { handleItemEquip(ld, DragItem(CatalogItem(id), "inventory", FALSE), "inventory", UNDEF, UNDEF,
                    FALSE, t.section, t.index, t.modIndex)
      : id \in InventoryIds, t \in SessionTargets }
\* The loadouts one split drag from backpack[0] to backpack[1] leads to.
SplitOnce(ld) ==
  LET item == getItem(ld, "backpack", 0) IN
  IF item = NULL THEN ld
  ELSE handleItemEquip(ld, DragItem(item, "backpack", TRUE), "backpack", 0, UNDEF,
                       DragIsSplit(item, "backpack", TRUE), "backpack", 1, -1)
\* Up to two drops from the inventory, then up to two splits.
SessionFilled ==
  {EmptyLoadout} \cup EquipFromInventory(EmptyLoadout)
    \cup UNION {EquipFromInventory(ld) : ld \in EquipFromInventory(EmptyLoadout)}
SessionSplit == SessionFilled \cup {SplitOnce(ld) : ld \in SessionFilled}
SessionLoadouts ==
  {ld \in SessionSplit \cup {SplitOnce(ld) : ld \in SessionSplit} : OccupiedCount(ld) <= MaxItems}

InitSession ==
  /\ loadout \in SessionLoadouts
  /\ draggedItem = NULL
  /\ dragSource = NoSource
  /\ activeSlot = NoSlot
  /\ dropValidity = "null"
  /\ touchStartPos = FALSE
  /\ autoScrollInterval = FALSE
  /\ last = NoOp

\* The record of a gesture that left the loadout as it was is discarded; a
\* gesture that changed the loadout ends the exploration of that loadout.
ObserveUnchanged ==
  /\ last.pre = loadout
  /\ Observe

NextSession ==
  \/ DragStartInventory
  \/ DragStartSlot
  \/ SlotDragOver
  \/ AppDragOver
  \/ PanelDragOver
  \/ SlotDropAfterDragOver
  \/ PanelDrop
  \/ InventoryDrop
  \/ AppDrop
  \/ DragEnd
  \/ TouchStartInventory
  \/ TouchStartSlot
  \/ SecondTouchStart
  \/ TouchMove
  \/ TouchEnd
  \/ ObserveUnchanged

SpecSession == InitSession /\ [][NextSession]_vars

\* ------------------------------------- a touch that the browser cancels
\* The timers of App's two auto-scroll effects: each effect starts its
\* interval when its condition holds and its cleanup clears it when a
\* dependency changes, so each runs exactly while the condition holds.
inventoryAutoScroll ==
  draggedItem # NULL /\ dragSource # NoSource /\ dragSource.section = "inventory"
loadoutAutoScroll ==
  /\ draggedItem # NULL
  /\ ~(dragSource # NoSource /\ dragSource.section = "inventory")
  /\ activeSlot = NoSlot

\* A long press on a draggable element starts a native drag: the browser
\* cancels the touch (touchcancel has no handler, the hook's state stays
\* that of the touch in flight) and delivers dragstart on the same element.
LongPressDragStart ==
  /\ TouchSession
  /\ LET item == IF dragSource.section = "inventory" THEN CatalogItem(draggedItem.id)
                 ELSE SlotContent(loadout, Slot(dragSource.section, dragSource.index, dragSource.modIndex))
     IN
     /\ item # NULL
     /\ ~(dragSource.section # "inventory" /\ dragSource.modIndex = UNDEF
          /\ IsFixedExtra(loadout, dragSource.section, dragSource.index))
     /\ draggedItem' = DragItem(item, dragSource.section, FALSE)
     /\ dragSource' = Source(dragSource.section, dragSource.index, dragSource.modIndex,
                             DragIsSplit(item, dragSource.section, FALSE))
     /\ last' = Op("dragStart", item, dragSource', NoSlot, loadout)
  /\ UNCHANGED << loadout, activeSlot, dropValidity, touchStartPos, autoScrollInterval >>

\* dragend of that drag (handleDragEnd), after its dragstart or after a
\* drop that was rejected.
CancelledDragEnd ==
  /\ last.op \in {"dragStart", "equip"}
  /\ draggedItem # NULL
  /\ touchStartPos
  /\ ClearSession
  /\ last' = Op("dragEnd", NULL, NoSource, activeSlot, loadout)
  /\ UNCHANGED << loadout, touchStartPos, autoScrollInterval >>

\* drop of that drag on a rendered slot (handleSlotDrop).
CancelledSlotDrop ==
  \E slot \in RenderedSlots(loadout) :
    /\ last.op = "dragStart"
    /\ draggedItem # NULL
    /\ touchStartPos
    /\ DropOn(slot)

\* The next touchstart on an inventory row after those events.
TouchStartAgain ==
  \E id \in InventoryIds :
    /\ Ready
    /\ draggedItem = NULL
    /\ touchStartPos
    /\ TouchStartOn(CatalogItem(id), "inventory", UNDEF, UNDEF)

NextCancel ==
  \/ TouchStartInventory
  \/ TouchStartSlot
  \/ TouchMove
  \/ TouchEnd
  \/ LongPressDragStart
  \/ CancelledDragEnd
  \/ CancelledSlotDrop
  \/ TouchStartAgain
  \/ ObserveUnchanged

SpecCancel == InitSession /\ [][NextCancel]_vars

\* -------------------------------------------- resizeSection on its own
\* Longest pool resized and the stacks it holds, told apart by their count.
MaxPoolLen == 5
PoolCells == { NULL } \cup { [CatalogItem("ammo") EXCEPT !.count = n] : n \in 1..3 }
Pools == UNION { [1..n -> PoolCells] : n \in 0..MaxPoolLen }

InitResize ==
  /\ loadout \in { [EmptyLoadout EXCEPT !.backpack = pool] : pool \in Pools }
  /\ draggedItem = NULL
  /\ dragSource = NoSource
  /\ activeSlot = NoSlot
  /\ dropValidity = "null"
  /\ touchStartPos = FALSE
  /\ autoScrollInterval = FALSE
  /\ last = NoOp

\* resizeSection(prev.backpack, newSize) for a capacity newSize.
Resize ==
  \E newSize \in 0..MaxPoolLen :
    /\ Ready
    /\ loadout' = [loadout EXCEPT !.backpack = resizeSection(@, newSize)]
    /\ last' = Op("resize", NULL, NoSource, Slot("backpack", newSize, UNDEF), loadout)
    /\ UNCHANGED << draggedItem, dragSource, activeSlot, dropValidity, touchStartPos, autoScrollInterval >>

NextResize ==
  \/ Resize
  \/ Observe

SpecResize == InitResize /\ [][NextResize]_vars

\* ------------------------------------------------- count edits on their own
\* Values typed into a count input.
RawValues ==
  { RawValue(TRUE, 0), RawValue(FALSE, -1), RawValue(FALSE, 0), RawValue(FALSE, 1),
    RawValue(FALSE, 2), RawValue(FALSE, 5) }
\* The slots that render a count input: a stack with a stackSize.
CountInputs(ld) ==
  { slot \in PlainSlots(ld) : SlotContent(ld, slot) # NULL /\ StackSize(SlotContent(ld, slot)) # 0 }

\* A change of a slot's count input; the input keeps the focus, so a run of
\* changes stays on one input.
CountChange ==
  \E slot \in CountInputs(loadout), rawValue \in RawValues :
    /\ draggedItem = NULL
    /\ last = NoOp \/ (last.op = "countChange" /\ last.tgt = slot)
    /\ loadout' = handleCountChange(loadout, slot.section, slot.index, SlotContent(loadout, slot), rawValue)
    /\ last' = Op("countChange", SlotContent(loadout, slot), NoSource, slot, loadout)
    /\ UNCHANGED << draggedItem, dragSource, activeSlot, dropValidity, touchStartPos, autoScrollInterval >>

\* The input that was being edited loses the focus.
CountBlur ==
  /\ last.op = "countChange"
  /\ loadout' = handleCountBlur(loadout, last.tgt.section, last.tgt.index)
  /\ last' = Op("countBlur", getItem(loadout, last.tgt.section, last.tgt.index), NoSource, last.tgt, loadout)
  /\ UNCHANGED << draggedItem, dragSource, activeSlot, dropValidity, touchStartPos, autoScrollInterval >>

\* The page is reloaded while the input has the focus: the save effect has
\* stored the loadout of the last change, no blur is delivered.
ReloadWhileEditing ==
  /\ last.op = "countChange"
  /\ loadout' = RestoreOnMount(serializeLoadout(loadout))
  /\ last' = Op("reload", NULL, NoSource, last.tgt, loadout)
  /\ UNCHANGED << draggedItem, dragSource, activeSlot, dropValidity, touchStartPos, autoScrollInterval >>

\* shift+click on a slot while no input is being edited.
CountSlotClick ==
  \E slot \in PlainSlots(loadout) :
    /\ Idle
    /\ loadout' = handleSlotClick(loadout, slot.section, DefaultNeg1(slot.index), DefaultNeg1(slot.modIndex))
    /\ last' = Op("click", NULL, NoSource, Slot(slot.section, DefaultNeg1(slot.index), DefaultNeg1(slot.modIndex)), loadout)
    /\ UNCHANGED << draggedItem, dragSource, activeSlot, dropValidity, touchStartPos, autoScrollInterval >>

\* The record of a finished gesture is discarded.
ObserveSettled ==
  /\ last.op # "countChange"
  /\ Observe

NextCount ==
  \/ CountChange
  \/ CountBlur
  \/ ReloadWhileEditing
  \/ CountSlotClick
  \/ ObserveSettled

SpecCount == InitSession /\ [][NextCount]_vars

\* ----------------------------------------------- pointer moves on their own
\* Loadouts the pointer moves over: empty, a weapon with its modification
\* slots, an augment that adds pool slots.
PointerLoadouts ==
  { EmptyLoadout }
    \cup { handleItemEquip(EmptyLoadout, DragItem(CatalogItem(id), "inventory", FALSE), "inventory",
                           UNDEF, UNDEF, FALSE, t.section, t.index, t.modIndex)
            : id \in {"gun", "aug_a"}, t \in SessionTargets }
\* No drag, or a drag from the inventory under way.
InitPointer ==
  /\ loadout \in PointerLoadouts
  /\ \E id \in InventoryIds, dragging \in BOOLEAN :
       /\ draggedItem = IF dragging THEN DragItem(CatalogItem(id), "inventory", FALSE) ELSE NULL
       /\ dragSource = IF dragging THEN Source("inventory", UNDEF, UNDEF, FALSE) ELSE NoSource
  /\ activeSlot = NoSlot
  /\ dropValidity = "null"
  /\ touchStartPos = FALSE
  /\ autoScrollInterval = FALSE
  /\ last = NoOp

\* A dragover on the loadout panel; the record keeps the pointer position
\* and the latch before the move.
PointerMove ==
  \E x \in PointerXs(loadout) :
    /\ PanelDragOverAt(x)
    /\ last' = [op |-> "panelDragOver", item |-> draggedItem, src |-> dragSource,
                tgt |-> activeSlot, pre |-> loadout, x |-> x, validity |-> dropValidity]

NextPointer == PointerMove
SpecPointer == InitPointer /\ [][NextPointer]_vars

\* ------------------------------------------------- touch moves on their own
\* A touch drag from the inventory under way.
InitTouch ==
  /\ loadout \in PointerLoadouts
  /\ \E id \in InventoryIds :
       draggedItem = TouchDragItem(CatalogItem(id), "inventory")
  /\ dragSource = Source("inventory", UNDEF, UNDEF, FALSE)
  /\ activeSlot = NoSlot
  /\ dropValidity = "null"
  /\ touchStartPos = TRUE
  /\ autoScrollInterval = TRUE
  /\ last = NoOp

\* A touchmove beyond the drag threshold; the record keeps the slot the
\* point is aimed at, the scroll-zone flag and the latch before the move.
TouchMoveRecorded ==
  \E at \in RenderedSlots(loadout) \cup {NoSlot}, overScrollZone \in BOOLEAN :
    /\ TouchMoveAt(at, overScrollZone)
    /\ last' = [op |-> "touchMove", item |-> draggedItem, src |-> dragSource,
                tgt |-> activeSlot, pre |-> loadout, at |-> at, zone |-> overScrollZone]

NextTouch == TouchMoveRecorded
SpecTouch == InitTouch /\ [][NextTouch]_vars

\* ------------------------------------------------------ restore on mount
\* Stored payloads (local storage or a shared link): known and unknown ids,
\* arrays shorter and longer than the capacity, with and without an augment.
Stored(id, count) == [id |-> id, count |-> count, mods |-> << >>]
StoredAugments == { SNULL, Stored("aug_a", 1), Stored("aug_b", 1), Stored("ghost", 1) }
StoredShields == { SNULL, Stored("medium_shield", 1) }
StoredWeapons ==
  { << >>,
    << [id |-> "gun", count |-> 1, mods |-> << Stored("muzzle", 1) >>] >>,
    << SNULL, [id |-> "gun", count |-> 0, mods |-> << SNULL, Stored("ghost", 1) >>] >>,
    << SNULL, SNULL, Stored("rifle", 1) >> }
StoredBackpacks ==
  { << >>,
    << Stored("ammo", 3) >>,
    << Stored("ghost", 1), Stored("ammo", 2) >>,
    [i \in 1..(DEFAULT_SLOTS.backpack + 1) |->
       IF i = DEFAULT_SLOTS.backpack + 1 THEN Stored("ammo", 2) ELSE SNULL] }
StoredExtras == { << >>, << Stored("ammo", 1) >>, << Stored("binoculars", 1) >> }
Payloads ==
  { [augment |-> a, shield |-> sh, weapons |-> w, backpack |-> b,
     quickUse |-> << >>, extra |-> e, safePocket |-> << >>]
      : a \in StoredAugments, sh \in StoredShields, w \in StoredWeapons,
        b \in StoredBackpacks, e \in StoredExtras }

\* The page before the catalog has loaded: the initial loadout, a payload
\* waiting in storage.
InitRestore ==
  /\ loadout = EmptyLoadout
  /\ draggedItem = NULL
  /\ dragSource = NoSource
  /\ activeSlot = NoSlot
  /\ dropValidity = "null"
  /\ touchStartPos = FALSE
  /\ autoScrollInterval = FALSE
  /\ \E data \in Payloads :
       last = [op |-> "stored", item |-> NULL, src |-> NoSource, tgt |-> NoSlot,
               pre |-> EmptyLoadout, data |-> data]

\* The load effect, once the catalog is there.
Restore ==
  /\ last.op = "stored"
  /\ loadout' = RestoreOnMount(last.data)
  /\ last' = [op |-> "restore", item |-> NULL, src |-> NoSource, tgt |-> NoSlot,
              pre |-> loadout, data |-> last.data, restored |-> deserializeLoadout(last.data)]
  /\ UNCHANGED << draggedItem, dragSource, activeSlot, dropValidity, touchStartPos, autoScrollInterval >>

\* The page is reloaded: the save effect has stored the loadout, the load
\* effect of the new page restores it.
Reload ==
  /\ Idle
  /\ loadout' = RestoreOnMount(serializeLoadout(loadout))
  /\ last' = [op |-> "reload", item |-> NULL, src |-> NoSource, tgt |-> NoSlot,
              pre |-> loadout, data |-> serializeLoadout(loadout),
              restored |-> deserializeLoadout(serializeLoadout(loadout))]
  /\ UNCHANGED << draggedItem, dragSource, activeSlot, dropValidity, touchStartPos, autoScrollInterval >>

\* The reset button, confirmed.
Reset ==
  /\ Idle
  /\ loadout' = handleReset
  /\ last' = Op("reset", NULL, NoSource, NoSlot, loadout)
  /\ UNCHANGED << draggedItem, dragSource, activeSlot, dropValidity, touchStartPos, autoScrollInterval >>

\* shift+click on a rendered slot of a restored loadout
RestoredSlotClick ==
  \E slot \in RenderedSlots(loadout) :
    /\ Idle
    /\ loadout' = handleSlotClick(loadout, slot.section, DefaultNeg1(slot.index), DefaultNeg1(slot.modIndex))
    /\ last' = Op("click", NULL, NoSource, Slot(slot.section, DefaultNeg1(slot.index), DefaultNeg1(slot.modIndex)), loadout)
    /\ UNCHANGED << draggedItem, dragSource, activeSlot, dropValidity, touchStartPos, autoScrollInterval >>

\* The record of the restore or of a gesture is discarded.
ObserveRestored ==
  /\ last.op # "stored"
  /\ Observe

NextRestore ==
  \/ Restore
  \/ Reload
  \/ Reset
  \/ RestoredSlotClick
  \/ ObserveRestored
SpecRestore == InitRestore /\ [][NextRestore]_vars

\* -------------------------------------------- loot table on its own
\* Loadouts the loot table is computed for: weapons with and without a
\* recipe, with and without a mounted muzzle, stacks of several counts.
Stack(id, count) == [CatalogItem(id) EXCEPT !.count = count]
WithMuzzle(weapon) == [weapon EXCEPT !.mods = SetAt(@, 0, [id |-> "muzzle", count |-> 1, mods |-> << >>, isIntegrated |-> FALSE])]
LootWeapons ==
  { NULL, Stack("gun", 1), WithMuzzle(Stack("gun", 1)), Stack("rifle", 1), WithMuzzle(Stack("rifle", 1)) }
LootFirst == { NULL, Stack("muzzle", 3), Stack("ammo", 3), Stack("ammo", 1), WithMuzzle(Stack("rifle", 1)) }
LootSecond == { NULL, Stack("muzzle", 5), Stack("ammo", 2) }
LootShields == { NULL, Stack("medium_shield", 1) }
LootLoadouts ==
  { [EmptyLoadout EXCEPT !.shield = sh, !.weapons[1] = w, !.backpack[1] = b1, !.backpack[2] = b2]
      : sh \in LootShields, w \in LootWeapons, b1 \in LootFirst, b2 \in LootSecond }

InitLoot ==
  /\ loadout \in LootLoadouts
  /\ draggedItem = NULL
  /\ dragSource = NoSource
  /\ activeSlot = NoSlot
  /\ dropValidity = "null"
  /\ touchStartPos = FALSE
  /\ autoScrollInterval = FALSE
  /\ last = NoOp

\* The loot table is opened.
ShowLootTable ==
  /\ Idle
  /\ last' = [op |-> "lootTable", item |-> NULL, src |-> NoSource, tgt |-> NoSlot,
              pre |-> loadout, totals |-> getLootTable(loadout)]
  /\ UNCHANGED << loadout, draggedItem, dragSource, activeSlot, dropValidity, touchStartPos, autoScrollInterval >>

\* The recycle list is opened.
ShowRecycleList ==
  /\ Idle
  /\ last' = [op |-> "recycleList", item |-> NULL, src |-> NoSource, tgt |-> NoSlot,
              pre |-> loadout, totals |-> getLootTable(loadout),
              list |-> getRecycleList(getLootTable(loadout))]
  /\ UNCHANGED << loadout, draggedItem, dragSource, activeSlot, dropValidity, touchStartPos, autoScrollInterval >>

NextLoot ==
  \/ ShowLootTable
  \/ ShowRecycleList
SpecLoot == InitLoot /\ [][NextLoot]_vars

\* -------------------------------------------- recipe resolution on its own
\* Raw catalogs: for each tier of the anvil, the file is missing, has
\* neither field, has a recipe only, or has a recipe and an upgrade cost
\* (both growing with the tier); and a hammer without suffix.
TierFiles == {"absent", "bare", "recipe", "costed"}
RawEntry(kind, t) ==
  [recipe |-> IF kind = "bare" THEN Undefined ELSE Costs([metal |-> 2 * t]),
   upgradeCost |-> IF kind = "costed" THEN Costs([metal |-> t, wire |-> 1]) ELSE Undefined]
RawCatalog(kinds) ==
  [id \in { Id("anvil", tiers[t]) : t \in { u \in 1..Len(tiers) : kinds[u] # "absent" } }
            \cup { Id("hammer", "") } |->
     IF id.tier = "" THEN RawEntry("costed", 7)
     ELSE RawEntry(kinds[targetTier(id.tier)], targetTier(id.tier))]
RawCatalogs == { RawCatalog(kinds) : kinds \in [1..Len(tiers) -> TierFiles] }

\* The item files have been fetched.
InitRecipe ==
  /\ loadout = EmptyLoadout
  /\ draggedItem = NULL
  /\ dragSource = NoSource
  /\ activeSlot = NoSlot
  /\ dropValidity = "null"
  /\ touchStartPos = FALSE
  /\ autoScrollInterval = FALSE
  /\ \E itemMap \in RawCatalogs :
       last = [op |-> "fetched", item |-> NULL, src |-> NoSource, tgt |-> NoSlot,
               pre |-> EmptyLoadout, itemMap |-> itemMap]

\* fetchInventory builds the lookup entry of one item.
ResolveRecipe ==
  /\ last.op \in {"fetched", "resolved"}
  /\ \E id \in DOMAIN last.itemMap :
       last' = [op |-> "resolved", item |-> NULL, src |-> NoSource, tgt |-> NoSlot,
                pre |-> EmptyLoadout, itemMap |-> last.itemMap, id |-> id,
                recipe |-> resolveRecipe(last.itemMap, id)]
  /\ UNCHANGED << loadout, draggedItem, dragSource, activeSlot, dropValidity, touchStartPos, autoScrollInterval >>

NextRecipe == ResolveRecipe
SpecRecipe == InitRecipe /\ [][NextRecipe]_vars

\* ------------------------------------------------- equip, then reload
\* Pointer drags from the empty loadout, and a reload of the page between
\* them.
NextReload ==
  \/ DragStartInventory
  \/ DragStartSlot
  \/ SlotDrop
  \/ DragEnd
  \/ Reload
  \/ Observe
SpecReload == Init /\ [][NextReload]_vars

\* ======================================================================
\* canEquip on its own: every call over a bounded input space
\* ======================================================================
\* Category tags an item may carry, in any combination.
ProbeCategories ==
  {"Augment", "Shield", "Weapon", "Ammunition", "Modification", "Quick Use", "Key", "Utility"}
\* Item ids: the three shield tiers and an id that is none of them.
ProbeIds == {"light_shield", "medium_shield", "heavy_shield", "other"}
\* The loadouts canEquip reads its augment from: no augment, or one equipped
\* from the inventory.
ProbeLoadouts ==
  {EmptyLoadout} \cup
  {handleItemEquip(EmptyLoadout, CatalogItem(a), "inventory", UNDEF, UNDEF, FALSE, "augment", -1, -1)
     : a \in {"aug_a", "aug_b", "aug_c"}}
\* Slot targets (no modification index), indexed slots up to MaxPoolIdx.
ProbeTargets ==
  {Slot(sec, -1, -1) : sec \in {"augment", "shield", "extra"}}
    \cup {Slot(sec, i, -1) : sec \in ArraySections, i \in 0..MaxPoolIdx}

\* A call of canEquip waiting to be evaluated.
Probe(id, cats, tgt, ld) ==
  [op |-> "canEquip", item |-> [NULL EXCEPT !.id = id], src |-> NoSource, tgt |-> tgt,
   pre |-> ld, cats |-> cats, done |-> FALSE, verdict |-> FALSE]

InitCanEquip ==
  /\ loadout \in ProbeLoadouts
  /\ draggedItem = NULL
  /\ dragSource = NoSource
  /\ activeSlot = NoSlot
  /\ dropValidity = "null"
  /\ touchStartPos = FALSE
  /\ autoScrollInterval = FALSE
  /\ \E id \in ProbeIds, cats \in SUBSET ProbeCategories, tgt \in ProbeTargets :
       last = Probe(id, cats, tgt, loadout)

\* The call returns.
CallCanEquip ==
  /\ last.op = "canEquip" /\ ~last.done
  /\ last' = [last EXCEPT
       !.done = TRUE,
       !.verdict = canEquipCat(loadout, last.item.id, last.cats,
                               last.tgt.section, last.tgt.index, last.tgt.modIndex)]
  /\ UNCHANGED <<loadout, draggedItem, dragSource, activeSlot, dropValidity,
                 touchStartPos, autoScrollInterval>>

NextCanEquip == CallCanEquip
SpecCanEquip == InitCanEquip /\ [][NextCanEquip]_vars

\* ----------------------------------------- canEquip on modification slots
\* Largest modification index aimed at; the weapons declare two.
MaxModIdx == 2
ModProbeCategories ==
  {"Augment", "Shield", "Weapon", "Modification", "Muzzle", "Stock", "Quick Use"}
\* What a weapon slot may hold: nothing, a weapon, or a stack a swap put there.
ModProbeOccupants ==
  {NULL} \cup {[CatalogItem(w) EXCEPT !.count = 1] : w \in {"gun", "rifle", "muzzle"}}
ModProbeLoadouts ==
  {[EmptyLoadout EXCEPT !.weapons = << a, b >>] : a \in ModProbeOccupants, b \in ModProbeOccupants}
ModProbeTargets == {Slot("weapons", i, k) : i \in 0..1, k \in 0..MaxModIdx}

InitModTarget ==
  /\ loadout \in ModProbeLoadouts
  /\ draggedItem = NULL
  /\ dragSource = NoSource
  /\ activeSlot = NoSlot
  /\ dropValidity = "null"
  /\ touchStartPos = FALSE
  /\ autoScrollInterval = FALSE
  /\ \E id \in {"other", "medium_shield"}, cats \in SUBSET ModProbeCategories, tgt \in ModProbeTargets :
       last = Probe(id, cats, tgt, loadout)

SpecModTarget == InitModTarget /\ [][NextCanEquip]_vars

\* ======================================================================
\* Properties
\* ======================================================================
\* The last handler run was a drop on a slot (handleItemEquip).
WasEquip == last.op = "equip"
FromLoadout == last.src.section # "inventory"
\* The source descriptor names a mounted modification.
FromMod == IsModSource(last.src.modIndex)
\* Source and target denote the same place of the loadout.
SameLocation ==
  /\ last.src.section = last.tgt.section
  /\ DefaultNeg1(last.src.index) = last.tgt.index
  /\ DefaultNeg1(last.src.modIndex) = last.tgt.modIndex
\* What a location of a loadout holds.
Holds(ld, sec, idx, modIdx) ==
  IF DefaultNeg1(modIdx) # -1 THEN ModAt(At(ld[sec], idx), modIdx)
  ELSE getItem(ld, sec, DefaultNeg1(idx))
TargetBefore == Holds(last.pre, last.tgt.section, last.tgt.index, last.tgt.modIndex)
TargetAfter == Holds(loadout, last.tgt.section, last.tgt.index, last.tgt.modIndex)
SourceBefore == Holds(last.pre, last.src.section, last.src.index, last.src.modIndex)
SourceAfter == Holds(loadout, last.src.section, last.src.index, last.src.modIndex)
Accepts == canEquip(last.pre, last.item, last.tgt.section, last.tgt.index, last.tgt.modIndex)

\* C1: a stack dragged from a loadout location and dropped on that same
\* location leaves the loadout as it was.
C1_SameLocationNoOp ==
  (WasEquip /\ FromLoadout /\ SameLocation) => loadout = last.pre

\* The drop landed on a slot (not on a mounted modification) holding an
\* item of another id than the dragged one.
OntoOtherItem ==
  /\ WasEquip
  /\ last.tgt.modIndex = -1
  /\ TargetBefore # NULL
  /\ TargetBefore.id # last.item.id

\* C2: a non-split drop of A, dragged from any loadout location, onto a slot
\* canEquip accepts and that holds a different item B leaves A in the target
\* slot and B at A's former location.
C2_SwapKeepsBoth ==
  (OntoOtherItem /\ FromLoadout /\ ~last.src.isSplit /\ Accepts)
    => /\ TargetAfter.id = last.item.id
       /\ SourceAfter = TargetBefore

\* The drop landed on another slot than its source (not on a mounted
\* modification) that holds a stack of the dragged item's id.
OntoSameStack ==
  /\ WasEquip
  /\ last.tgt.modIndex = -1
  /\ ~SameLocation
  /\ TargetBefore # NULL
  /\ TargetBefore.id = last.item.id
  /\ StackSize(TargetBefore) # 0
\* Headroom of the target stack and the number of units the merge moves.
MergeRoom == StackSize(TargetBefore) - CountOr1(TargetBefore)
MergeMoved ==
  IF CountOr1(last.item) < MergeRoom THEN CountOr1(last.item) ELSE MergeRoom
\* The loadout with the source location left out.
SourceBlanked(ld) ==
  IF ~FromLoadout THEN ld
  ELSE IF FromMod THEN ClearMod(ld, last.src.section, last.src.index, last.src.modIndex)
  ELSE setItem(ld, last.src.section, DefaultNeg1(last.src.index), NULL)
\* The loadout with source and target locations left out.
OthersOf(ld) == setItem(SourceBlanked(ld), last.tgt.section, last.tgt.index, NULL)

\* C3: a drop the equip checks let through, of d units onto another slot
\* holding t units of the same id with stack size S, moves m = min(d, S - t)
\* units: the target ends with t + m <= S, a loadout source keeps what it had
\* less m and is emptied only at zero, every other slot is untouched, and
\* with S - t = 0 nothing changes.
C3_StackMerge ==
  (OntoSameStack /\ Accepts) =>
    /\ TargetAfter = [TargetBefore EXCEPT !.count = CountOr1(TargetBefore) + MergeMoved]
    /\ TargetAfter.count <= StackSize(TargetBefore)
    /\ FromLoadout =>
         IF CountOr1(SourceBefore) - MergeMoved > 0
         THEN SourceAfter = [SourceBefore EXCEPT !.count = CountOr1(SourceBefore) - MergeMoved]
         ELSE SourceAfter = NULL
    /\ OthersOf(loadout) = OthersOf(last.pre)
    /\ MergeRoom = 0 => loadout = last.pre
\* Units moved into a stack with headroom, the rest left at the source.
C3_Witness ==
  /\ OntoSameStack /\ Accepts /\ FromLoadout
  /\ MergeMoved > 0
  /\ SourceAfter # NULL
  /\ TargetAfter.count = StackSize(TargetBefore)
\* A merge into a full stack.
C3_WitnessFull ==
  OntoSameStack /\ Accepts /\ MergeRoom = 0

\* Number of units of an item id in a sequence of slots, mounted
\* modifications included.
RECURSIVE SeqUnits(_, _)
SeqUnits(arr, id) ==
  IF arr = << >> THEN 0
  ELSE LET it == Head(arr) IN
       (IF it.id = id THEN CountOr1(it) ELSE 0)
       + (IF it.id = "null" THEN 0 ELSE SeqUnits(it.mods, id))
       + SeqUnits(Tail(arr), id)
TotalUnits(ld, id) ==
  SeqUnits(<<ld.augment, ld.shield>> \o ld.weapons \o ld.backpack
           \o ld.quickUse \o ld.safePocket \o ld.extra, id)
\* The drop evicted the equipped shield.
ShieldEvicted == last.pre.shield # NULL /\ loadout.shield = NULL /\ SourceBefore # last.pre.shield

\* C4: an accepted drop from one loadout location onto another slot (not a
\* mounted modification) keeps the number of units of every item id in the
\* loadout, apart from an evicted shield.
C4_TransferConserves ==
  (WasEquip /\ FromLoadout /\ Accepts /\ last.tgt.modIndex = -1 /\ ~SameLocation)
    => \A id \in ItemIds :
         TotalUnits(loadout, id) =
           TotalUnits(last.pre, id)
             - (IF ShieldEvicted /\ last.pre.shield.id = id THEN 1 ELSE 0)

\* C5: a split drag dropped on a slot (not a mounted modification) holding an
\* item of another id changes nothing in the loadout.
C5_SplitNeverDisplaces ==
  (OntoOtherItem /\ last.src.isSplit) => loadout = last.pre
\* A split drag accepted by canEquip was dropped on another item.
C5_Witness ==
  OntoOtherItem /\ last.src.isSplit /\ Accepts /\ SourceBefore.count > 1

\* The last handler run wrote the augment slot: a drop on it, or the
\* augment dragged out, touch-unequipped or modifier-clicked.
AugmentMutated ==
  /\ last.op # "none"
  /\ loadout # last.pre
  /\ (last.tgt.section = "augment" \/ last.src.section = "augment")

\* C6: once a handler has emptied or replaced the augment slot, a shield
\* that does not fit the augment now equipped (or no augment) is no longer
\* in the shield slot.
C6_ShieldCascade ==
  AugmentMutated =>
    (loadout.shield = NULL \/ isShieldCompatible(loadout.shield, loadout.augment))
\* The augment left the loadout and took the shield it alone allowed with it.
C6_Witness ==
  /\ AugmentMutated
  /\ last.op # "equip"
  /\ last.pre.shield # NULL
  /\ isShieldCompatible(last.pre.shield, last.pre.augment)
  /\ loadout.augment = NULL
  /\ loadout.shield = NULL

\* C7: a drop canEquip refuses leaves the loadout as it was.
C7_InvalidRejected ==
  (WasEquip /\ ~Accepts) => loadout = last.pre
\* A refused drop of a stack taken from another place of the loadout.
C7_Witness ==
  /\ WasEquip /\ ~Accepts
  /\ FromLoadout /\ ~SameLocation
  /\ last.tgt.section # "extra"

\* The target of the drop is an extra slot of a fixed integrated type.
OntoFixedExtra ==
  /\ WasEquip
  /\ last.tgt.section = "extra"
  /\ ExtraTypeAt(last.pre.augment, last.tgt.index)
       \in {"integrated_binoculars", "integrated_shield_recharger"}

\* C8: a drop on an extra slot of a fixed integrated type leaves the loadout
\* as it was, whatever the item and its source.
C8_FixedExtraRejected ==
  OntoFixedExtra => loadout = last.pre
\* An item of the slot's own kind, taken from the loadout, dropped on it.
C8_Witness ==
  /\ OntoFixedExtra
  /\ FromLoadout
  /\ "Utility" \in Categories(last.item)

\* The drop landed on a modification slot of an occupied weapon slot, came
\* from elsewhere and passed canEquip.
OntoMod ==
  /\ WasEquip
  /\ last.tgt.modIndex # -1
  /\ At(last.pre[last.tgt.section], last.tgt.index) # NULL
  /\ ~SameLocation
  /\ Accepts
\* The loadout with the source location and the target modification left out.
ModOthersOf(ld) ==
  ClearMod(SourceBlanked(ld), last.tgt.section, last.tgt.index, last.tgt.modIndex)

\* C9: an accepted drop on modification k of an occupied weapon slot leaves
\* one unit of the dropped item mounted at k; a modification-slot source is
\* emptied, a slot source loses exactly one unit (emptied at zero), and
\* nothing else in the loadout changes.
C9_ModDrop ==
  OntoMod =>
    /\ TargetAfter = [last.item EXCEPT !.count = 1]
    /\ (FromLoadout /\ FromMod) => SourceAfter = NULL
    /\ (FromLoadout /\ ~FromMod) =>
         IF CountOr1(SourceBefore) - 1 > 0
         THEN SourceAfter = [SourceBefore EXCEPT !.count = CountOr1(SourceBefore) - 1]
         ELSE SourceAfter = NULL
    /\ ModOthersOf(loadout) = ModOthersOf(last.pre)
\* One unit of a larger stack mounted over a modification already there.
C9_Witness ==
  /\ OntoMod /\ FromLoadout /\ ~FromMod
  /\ CountOr1(SourceBefore) > 1
  /\ TargetBefore # NULL

\* A canEquip call has returned.
Returned == last.op = "canEquip" /\ last.done
\* The declared type of the extra slot aimed at admits the item: the slot
\* exists, is not of a fixed integrated type, and one of the item's
\* categories equals the type name up to letter case.
ExtraAdmits ==
  /\ last.tgt.index # -1
  /\ LET type == ExtraTypeAt(loadout.augment, last.tgt.index) IN
       /\ type \notin {"", "integrated_binoculars", "integrated_shield_recharger"}
       /\ \E c \in last.cats : Lower(c) = Lower(type)
ShieldFits == isShieldCompatible(last.item, loadout.augment)
\* The decision table read in precedence order: the first rule whose subject
\* matches gives the verdict.
TableVerdict ==
  LET s == last.tgt.section IN
  IF "Augment" \in last.cats THEN s = "augment"
  ELSE IF "Shield" \in last.cats
       THEN (s = "shield" /\ ShieldFits) \/ s \in {"backpack", "safePocket"}
  ELSE IF "Weapon" \in last.cats THEN s \in {"weapons", "backpack"}
  ELSE IF s = "extra" THEN ExtraAdmits
  ELSE \/ last.cats \cap {"Ammunition", "Modification", "Key"} # {} /\ s \in {"backpack", "safePocket"}
       \/ "Quick Use" \in last.cats /\ s \in {"backpack", "safePocket", "quickUse"}
\* The same rules read as alternatives: a target is legal when some rule
\* admits it.
SomeRuleAdmits ==
  LET s == last.tgt.section IN
  \/ "Augment" \in last.cats /\ s = "augment"
  \/ "Shield" \in last.cats /\ s = "shield" /\ ShieldFits
  \/ "Shield" \in last.cats /\ s \in {"backpack", "safePocket"}
  \/ "Weapon" \in last.cats /\ s \in {"weapons", "backpack"}
  \/ s = "extra" /\ ExtraAdmits
  \/ last.cats \cap {"Ammunition", "Modification", "Key"} # {} /\ s \in {"backpack", "safePocket"}
  \/ "Quick Use" \in last.cats /\ s \in {"backpack", "safePocket", "quickUse"}

\* C10 as stated: for any set of category tags and any slot target, canEquip
\* returns the verdict of the decision table read in precedence order (an
\* Augment item legal only in the augment slot, a Shield item only in the
\* shield slot when compatible, the backpack or the safe pocket, and so on).
C10_PrecedenceTable ==
  Returned => (last.verdict <=> TableVerdict)

\* C10 amended: for any set of category tags and any slot target, canEquip
\* returns true exactly when one of the table's rules admits the target; a
\* category whose rule does not list the target does not forbid it.
C10_SomeRuleAdmits ==
  Returned => (last.verdict <=> SomeRuleAdmits)
\* An item tagged Augment and something else found legal outside the augment
\* slot.
C10_Witness ==
  /\ Returned
  /\ "Augment" \in last.cats
  /\ last.tgt.section = "backpack"
  /\ last.verdict

\* A canEquip call for an item of the Shield category whose id names one of
\* the three tiers, aimed at the shield slot, has returned.
ShieldCall ==
  /\ Returned
  /\ "Shield" \in last.cats
  /\ last.tgt.section = "shield"
  /\ last.item.id \in {"light_shield", "medium_shield", "heavy_shield"}
\* The tiers the equipped augment declares; none without an augment.
DeclaredTiers ==
  IF loadout.augment = NULL THEN {} ELSE Catalog[loadout.augment.id].shieldCompatibility

C11_WitnessRefused ==
  ShieldCall /\ last.item.id = "medium_shield" /\ loadout.augment # NULL /\ ~last.verdict

\* A canEquip call aimed at a modification index has returned.
ModCall == Returned /\ last.tgt.modIndex # -1
\* The modification categories declared by what the target weapon slot holds.
DeclaredMods ==
  LET weapon == At(loadout.weapons, last.tgt.index) IN
  IF weapon = NULL THEN << >> ELSE Catalog[weapon.id].supportedModifications

\* C12: with a modification index k, canEquip is true exactly when the weapon
\* slot is occupied, its weapon declares a category at k and the item carries
\* that category; no other category of the item changes the verdict.
C12_ModTargetRule ==
  ModCall =>
    (last.verdict <=>
       /\ At(loadout.weapons, last.tgt.index) # NULL
       /\ last.tgt.modIndex < Len(DeclaredMods)
       /\ DeclaredMods[last.tgt.modIndex + 1] \in last.cats)
\* An item that is also a Weapon refused on a slot declared for a category
\* it does not carry.
C12_Witness ==
  /\ ModCall
  /\ "Weapon" \in last.cats
  /\ last.tgt.modIndex < Len(DeclaredMods)
  /\ DeclaredMods[last.tgt.modIndex + 1] = "Stock"
  /\ ~last.verdict
\* An item that is also an Augment accepted for the category it carries.
C12_WitnessAccepted ==
  ModCall /\ "Augment" \in last.cats /\ last.verdict

\* A canEquip call aimed at an index of the extra pool has returned.
ExtraCall == Returned /\ last.tgt.section = "extra" /\ last.tgt.modIndex = -1
\* The extra-slot sequence of the equipped augment: for each extra type, in
\* the order of EXTRA_SLOT_TYPES, as many slots as the augment declares.
DeclaredExtraTypes == extraSlotTypes(loadout.augment)
\* The category whose name is a slot type up to letter case.
CategoryNamed(type) ==
  CASE type = "trinket" -> "Trinket"
    [] type = "grenade" -> "Grenade"
    [] type = "utility" -> "Utility"
    [] type = "healing" -> "Healing"
    [] OTHER -> type

\* C13: canEquip accepts an extra index only if the equipped augment declares
\* a slot type at that index, the type is not an integrated one, and one of
\* the item's categories is the type's name up to letter case.
C13_ExtraRule ==
  (ExtraCall /\ last.verdict) =>
    /\ last.tgt.index >= 0
    /\ last.tgt.index < Len(DeclaredExtraTypes)
    /\ LET type == DeclaredExtraTypes[last.tgt.index + 1] IN
         /\ type \notin {"integrated_binoculars", "integrated_shield_recharger"}
         /\ CategoryNamed(type) \in last.cats
\* A Utility item accepted in a utility slot.
C13_Witness ==
  ExtraCall /\ last.verdict /\ "Utility" \in last.cats
\* A Utility item refused on the integrated binoculars slot.
C13_WitnessIntegrated ==
  /\ ExtraCall /\ ~last.verdict /\ "Utility" \in last.cats
  /\ last.tgt.index = 0
  /\ DeclaredExtraTypes = << "integrated_binoculars" >>

\* ----------------------------------------------------------- drag start
\* A drag start ran: last.item is the stack it was given, last.src the
\* source descriptor it recorded.
PointerStarted == last.op \in {"dragStart", "dragStartAlt"}
Started == PointerStarted \/ last.op = "touchStart"
SplitRequested ==
  last.op = "dragStartAlt" /\ last.src.section # "inventory" /\ StackSize(last.item) # 0
\* A split drag is in flight.
SplitInFlight == draggedItem # NULL /\ dragSource # NoSource /\ dragSource.isSplit

\* C14: a drag started from a loadout slot with the split modifier on a
\* stackable stack of count n drags floor(n/2) units with the split flag set
\* iff n > 1, and drags the whole stack with the flag clear when n = 1; while
\* the split drag is in flight the stored source stack still has count n and
\* the slot shows n - floor(n/2).
C14_SplitAtDragStart ==
  /\ SplitRequested =>
       LET n == CountOr1(last.item) IN
       /\ dragSource.isSplit <=> n > 1
       /\ draggedItem.count = IF n > 1 THEN n \div 2 ELSE n
       /\ SlotContent(loadout, Slot(dragSource.section, dragSource.index, dragSource.modIndex))
            = last.item
  /\ SplitInFlight =>
       LET stored == getItem(loadout, dragSource.section, dragSource.index)
           shown == displayItem(loadout, draggedItem, dragSource, dragSource.section, dragSource.index)
       IN
       /\ stored # NULL
       /\ draggedItem.count = CountOr1(stored) \div 2
       /\ shown.count = CountOr1(stored) - (CountOr1(stored) \div 2)

\* A stack of three is split: one unit dragged, two shown.
C14_Witness ==
  /\ SplitRequested
  /\ CountOr1(last.item) = 3
  /\ dragSource.isSplit
  /\ draggedItem.count = 1
  /\ displayItem(loadout, draggedItem, dragSource, dragSource.section, dragSource.index).count = 2

\* A stack of one dragged with the modifier held is not split.
C14_WitnessSingle ==
  /\ SplitRequested
  /\ CountOr1(last.item) = 1
  /\ ~dragSource.isSplit
  /\ draggedItem.count = 1

\* C15: a drag started from the inventory pool on a stackable item carries
\* the item's stack size and has the split flag clear, with or without the
\* split modifier.
C15_InventoryDragFullStack ==
  (Started /\ last.src.section = "inventory" /\ StackSize(last.item) # 0) =>
    /\ draggedItem.count = StackSize(last.item)
    /\ ~dragSource.isSplit

\* The modifier is held on an inventory row of a stackable item.
C15_Witness ==
  /\ last.op = "dragStartAlt"
  /\ last.src.section = "inventory"
  /\ StackSize(last.item) = 3
  /\ draggedItem.count = 3
  /\ ~dragSource.isSplit

C16_WitnessInventory ==
  /\ Started
  /\ StackSize(last.item) = 0
  /\ last.src.section = "inventory"
  /\ draggedItem.count = 0

\* ------------------------------------------------------------- sessions
\* This step is a drag start (pointer or touch).
StartStep == last.op = "none" /\ last'.op \in {"dragStart", "dragStartAlt", "touchStart"}
\* This step is a dragend or a touchend.
EndStep == (last.op = "none" /\ last'.op = "dragEnd") \/ (touchStartPos /\ ~touchStartPos')
SessionCleared ==
  draggedItem = NULL /\ dragSource = NoSource /\ activeSlot = NoSlot /\ dropValidity = "null"

\* C17: a drag start received while a session is in flight is rejected: it
\* leaves the dragged item, the source descriptor and the latched target of
\* the session as they were.
C17_SecondStartRejected ==
  [][(StartStep /\ draggedItem # NULL) =>
       (draggedItem' = draggedItem /\ dragSource' = dragSource /\ activeSlot' = activeSlot)]_vars

\* A second finger replaced the session: the latched target is the first
\* finger's, the dragged item is not the one it was latched for.
C17_Replaced ==
  /\ last.op = "touchStart"
  /\ activeSlot # NoSlot
  /\ dropValidity = "invalid"
  /\ canEquip(loadout, draggedItem, activeSlot.section, activeSlot.index, activeSlot.modIndex)

\* C18: from every state with a drag in flight, whatever slot is latched and
\* whatever the validity verdict, dragend and touchend leave the dragged
\* item, the drag source, the latched slot and the validity all null.
C18_DragEndClears ==
  [][(EndStep /\ draggedItem # NULL) => SessionCleared']_vars

\* A dragend arrived while a slot was latched.
C18_Witness ==
  /\ last.op = "dragEnd"
  /\ last.tgt # NoSlot
  /\ SessionCleared

\* A touchend arrived with no slot latched and away from the inventory.
C18_WitnessTouch ==
  /\ last.op = "touchCancel"
  /\ SessionCleared
  /\ ~touchStartPos

\* ------------------------------------------------------ drop resolution
\* This step is a drop or a touchend of the drag in flight; last'.op tells
\* where it ended.
ResolveStep ==
  /\ last.op = "none"
  /\ draggedItem # NULL
  /\ last'.op \in {"equip", "panelDrop", "inventoryDrop", "appDrop", "touchInventoryDrop", "touchCancel"}
TouchEndStep == touchStartPos /\ ~touchStartPos'
OverInventory == last'.op \in {"inventoryDrop", "touchInventoryDrop"}
FromLoadoutSource == dragSource.section # "inventory"
SourceSlot == Slot(dragSource.section, dragSource.index, dragSource.modIndex)
\* The move was committed to the latched slot.
CommittedToLatch ==
  /\ last'.op = "equip"
  /\ last'.tgt = Slot(activeSlot.section, DefaultNeg1(activeSlot.index), DefaultNeg1(activeSlot.modIndex))
  /\ loadout' = handleItemEquip(loadout, draggedItem, dragSource.section, dragSource.index,
                                dragSource.modIndex, dragSource.isSplit, activeSlot.section,
                                DefaultNeg1(activeSlot.index), DefaultNeg1(activeSlot.modIndex))
\* The source location is empty after the step.
SourceRemoved == SlotContent(loadout', SourceSlot) = NULL
\* The dragged count was taken off the source stack.
SourceDecremented ==
  LET left == CountOr1(SlotContent(loadout, SourceSlot)) - CountOr1(draggedItem) IN
  IF dragSource.modIndex # UNDEF \/ left <= 0
  THEN SourceRemoved
  ELSE /\ SlotContent(loadout', SourceSlot) # NULL
       /\ SlotContent(loadout', SourceSlot).count = left
SessionKept == UNCHANGED << draggedItem, dragSource, activeSlot, dropValidity >>

\* C19: when a drag ends by drop or touchend, (a) with a slot latched the
\* move is committed to exactly that slot; (b) otherwise, over the inventory
\* container with a loadout source, the source is removed entirely; (c) in
\* every other case the loadout is unchanged; and no session remains.
C19_DropResolution ==
  [][ResolveStep =>
       /\ IF activeSlot # NoSlot THEN CommittedToLatch
          ELSE IF OverInventory /\ FromLoadoutSource THEN SourceRemoved
          ELSE loadout' = loadout
       /\ SessionCleared']_vars

\* C19, as the code has it: a latched slot receives the move unless the
\* pointer drop lands on the inventory panel; a drop or touchend over the
\* inventory with a loadout source empties the source; a pointer drop on
\* the app area outside the panels takes the dragged count off a loadout
\* source; every other end leaves the loadout unchanged.  A touchend leaves
\* no session; a pointer drop leaves none unless it changed nothing and kept
\* the session for the dragend that follows.
C19_DropResolutionByEndPoint ==
  [][ResolveStep =>
       /\ activeSlot # NoSlot => (CommittedToLatch \/ last'.op = "inventoryDrop")
       /\ last'.op = "equip" => (activeSlot # NoSlot /\ CommittedToLatch)
       /\ OverInventory =>
            IF FromLoadoutSource THEN SourceRemoved ELSE loadout' = loadout
       /\ last'.op = "appDrop" =>
            IF FromLoadoutSource THEN SourceDecremented ELSE loadout' = loadout
       /\ last'.op \in {"panelDrop", "touchCancel"} => loadout' = loadout
       /\ TouchEndStep => SessionCleared'
       /\ ~TouchEndStep => (SessionCleared' \/ (SessionKept /\ loadout' = loadout))]_vars

\* A touchend over the inventory unequipped the dragged slot.
C19_Witness ==
  /\ last.op = "touchInventoryDrop"
  /\ SlotContent(last.pre, Slot(last.src.section, last.src.index, last.src.modIndex)) # NULL
  /\ SlotContent(loadout, Slot(last.src.section, last.src.index, last.src.modIndex)) = NULL
  /\ SessionCleared
\* A split drag dropped on the app area left the other half in the slot.
C19_WitnessAppDrop ==
  /\ last.op = "appDrop"
  /\ last.src.isSplit
  /\ SlotContent(loadout, Slot(last.src.section, last.src.index, last.src.modIndex)) # NULL
  /\ loadout # last.pre
\* A refused drop kept the session.
C19_WitnessKept ==
  /\ last.op = "equip"
  /\ draggedItem # NULL
  /\ loadout = last.pre

\* ----------------------------------------------------- pointer targeting
\* The last step was a pointer move over the loadout panel.
Moved == last.op = "panelDragOver"
\* Distance from the pointer of the last move to the i-th slot centre.
MovedDist(i) == Dist(last.x, Center(i))
MovedKeys == slotKeys(last.pre)
\* The slots no other slot is nearer than.
NearestSlots ==
  { MovedKeys[i] : i \in { k \in 1..Len(MovedKeys) :
                            \A j \in 1..Len(MovedKeys) : MovedDist(k) <= MovedDist(j) } }
\* Some slot centre is at most / less than d away from the pointer.
SomeCentreUpTo(d) == \E i \in 1..Len(MovedKeys) : MovedDist(i) <= d
SomeCentreBelow(d) == \E i \in 1..Len(MovedKeys) : MovedDist(i) < d
NothingLatched == activeSlot = NoSlot /\ dropValidity = "null"

\* C20: after a pointer move over the loadout panel during a drag, the
\* latched candidate is the nearest slot if its centre is within 80 units
\* (80 included), and nothing is latched if every centre is beyond 80; with
\* no item dragged the move latches nothing.
C20_NearestWithinThreshold ==
  Moved =>
    IF last.item = NULL THEN NothingLatched
    ELSE IF SomeCentreUpTo(80) THEN activeSlot \in NearestSlots
    ELSE NothingLatched

\* C20, as the code has it: the nearest slot is latched if its centre is
\* less than 80 units away; a centre at exactly 80 or farther latches
\* nothing and clears the previous latch and verdict.
C20_NearestBelowThreshold ==
  Moved =>
    IF last.item = NULL THEN NothingLatched
    ELSE IF SomeCentreBelow(80) THEN activeSlot \in NearestSlots /\ dropValidity # "null"
    ELSE NothingLatched

\* A move 79 units from the first centre latched the augment slot.
C20_Witness ==
  /\ Moved
  /\ last.item # NULL
  /\ last.x = 0 - 79
  /\ activeSlot = Slot("augment", -1, UNDEF)
\* A move exactly 80 units from the first centre cleared a latch.
C20_WitnessCleared ==
  /\ Moved
  /\ last.item # NULL
  /\ last.x = 0 - 80
  /\ last.tgt # NoSlot
  /\ NothingLatched
\* A move with nothing dragged.
C20_WitnessNoDrag ==
  /\ Moved
  /\ last.item = NULL
  /\ NothingLatched

\* ------------------------------------------------------- touch targeting
TouchMoved == last.op = "touchMove"
\* The rectangles the last touch point was in.
TouchHits == HitsAt(last.at)

\* C21: after a touchmove whose point hits several registered slots the
\* latched candidate is one with the deepest key, so a modification slot
\* wins over the weapon slot around it; over a scroll zone nothing is
\* latched.
C21_MostSpecificSlot ==
  TouchMoved =>
    IF last.zone THEN NothingLatched
    ELSE /\ TouchHits # {} =>
              /\ activeSlot \in TouchHits
              /\ \A h \in TouchHits : KeyParts(h) <= KeyParts(activeSlot)
         /\ last.at.modIndex # UNDEF => activeSlot = last.at

\* A touch point on a modification slot latched it, not its weapon.
C21_Witness ==
  /\ TouchMoved
  /\ ~last.zone
  /\ last.at.modIndex # UNDEF
  /\ Cardinality(TouchHits) = 2
  /\ activeSlot = last.at
\* A touch point over a scroll zone cleared the latch.
C21_WitnessZone ==
  /\ TouchMoved
  /\ last.zone
  /\ last.at # NoSlot
  /\ last.tgt # NoSlot
  /\ NothingLatched

\* ---------------------------------------------------- container lengths
\* The container lengths the augment of ld calls for.
LengthsDerived(ld) ==
  /\ Len(ld.backpack) = SlotConfig(ld.augment, "backpack", 16)
  /\ Len(ld.quickUse) = SlotConfig(ld.augment, "quick_use", 3)
  /\ Len(ld.safePocket) = SlotConfig(ld.augment, "safe_pocket", 0)
  /\ Len(ld.extra) = extraSlotCount(ld.augment)
  /\ Len(ld.weapons) = 2
\* The load effect has run (or there was nothing to load).
Mounted == last.op # "stored"

\* C22: in every settled state reached by equip, swap, unequip, reset and
\* restore operations the pooled containers have the lengths the equipped
\* augment declares (defaults 16, 3, 0; extra = sum of the declared extra
\* slots) and there are two weapon slots.
C22_PoolLengthsDerived == Mounted => LengthsDerived(loadout)

\* A restore that names no augment kept a backpack longer than the default.
C22_TooLong ==
  /\ last.op = "restore"
  /\ loadout.augment = NULL
  /\ Len(loadout.backpack) > 16

\* ------------------------------------------------ extra-pool validation
\* The fixed item an integrated extra-slot type mandates.
FixedItemId(type) ==
  IF type = "integrated_binoculars" THEN "binoculars" ELSE "surge_shield_recharger"
\* Cell i (0-based) of the extra pool agrees with its declared type.
ExtraCellValid(ld, i) ==
  LET type == ExtraTypeAt(ld.augment, i)
      cell == At(ld.extra, i)
  IN IF StartsWithIntegrated(type)
     THEN cell # NULL /\ cell.isIntegrated /\ cell.id = FixedItemId(type)
     ELSE \/ cell = NULL
          \/ /\ ~cell.isIntegrated
             /\ \E c \in Categories(cell) : Lower(c) = Lower(type)
\* The last operation changed the augment.
AugmentChanged == last.op # "none" /\ last.pre.augment # loadout.augment

\* C23: after an augment change has settled, every extra cell of an
\* integrated type holds the fixed integrated item, and every other cell is
\* empty or holds a non-integrated item with a category equal to the
\* cell's declared type, case aside.
C23_ExtraRevalidated ==
  AugmentChanged => \A i \in 0..(Len(loadout.extra) - 1) : ExtraCellValid(loadout, i)

\* An augment with an integrated slot replaced one with a utility slot that
\* held the user's binoculars: the fixed item took the cell.
C23_Witness ==
  /\ AugmentChanged
  /\ Len(last.pre.extra) = 1
  /\ last.pre.extra[1] # NULL
  /\ ~last.pre.extra[1].isIntegrated
  /\ Len(loadout.extra) = 1
  /\ loadout.extra[1].isIntegrated
\* The integrated item left with its augment.
C23_WitnessEjected ==
  /\ AugmentChanged
  /\ Len(last.pre.extra) = 1
  /\ last.pre.extra[1].isIntegrated
  /\ Len(loadout.extra) = 1
  /\ loadout.extra[1] = NULL

\* ------------------------------------------------------ bill of materials
LootShown == last.op = "lootTable"
\* The slot stacks of a loadout, in any order.
SlotStacks(ld) ==
  << ld.augment, ld.shield >> \o ld.weapons \o ld.backpack \o ld.quickUse \o ld.extra \o ld.safePocket
\* What one stack with a recipe requires of material m.
StackNeeds(item, m) ==
  IF item = NULL \/ item.id \notin DOMAIN Recipes THEN 0
  ELSE LET q == IF item.id \in DOMAIN CraftQuantities THEN CraftQuantities[item.id] ELSE 1
           c == IF item.count = 0 THEN 1 ELSE item.count
           crafts == CHOOSE n \in 0..c : n * q >= c /\ (n - 1) * q < c
       IN RecipeQty(item.id, m) * crafts
RECURSIVE SumNeeds(_, _)
SumNeeds(items, m) ==
  IF Len(items) = 0 THEN 0 ELSE StackNeeds(Head(items), m) + SumNeeds(Tail(items), m)
\* The loadout with nothing mounted on any stack.
Unmounted(ld) ==
  LET bare(arr) == [i \in 1..Len(arr) |->
                      IF arr[i] = NULL THEN NULL
                      ELSE [arr[i] EXCEPT !.mods = [k \in 1..Len(@) |-> NULL]]]
  IN [ld EXCEPT !.weapons = bare(@), !.backpack = bare(@), !.quickUse = bare(@),
                !.extra = bare(@), !.safePocket = bare(@)]
\* The modifications mounted on the slot stacks.
RECURSIVE MountedOn(_)
MountedOn(items) ==
  IF Len(items) = 0 THEN << >>
  ELSE (IF Head(items) = NULL THEN << >> ELSE Head(items).mods) \o MountedOn(Tail(items))

\* C24: the required quantity of every material is the sum over the slot
\* stacks with a recipe of recipe x ceil(count / craftQuantity), the mounted
\* modifications (C25) set aside: with nothing mounted the totals are that
\* sum, and what is mounted never lowers a total.
C24_BillOfMaterials ==
  LootShown =>
    \A m \in Materials :
      /\ getLootTable(Unmounted(last.pre))[m] = SumNeeds(SlotStacks(last.pre), m)
      /\ MountedOn(SlotStacks(last.pre)) = MountedOn(SlotStacks(Unmounted(last.pre)))
           => last.totals[m] = SumNeeds(SlotStacks(last.pre), m)
      /\ last.totals[m] >= SumNeeds(SlotStacks(last.pre), m)

\* Two muzzle stacks of 3 and 5 with craft output 1 require the recipe
\* eight times.
C24_Witness ==
  /\ LootShown
  /\ last.pre.backpack[1] = Stack("muzzle", 3)
  /\ last.pre.backpack[2] = Stack("muzzle", 5)
  /\ last.pre.shield = NULL
  /\ last.pre.weapons[1] = NULL
  /\ last.totals = [m \in Materials |-> 8 * RecipeQty("muzzle", m)]
\* Three rounds at a craft output of two take two crafts.
C24_WitnessCeil ==
  /\ LootShown
  /\ last.pre.backpack[1] = Stack("ammo", 3)
  /\ last.pre.backpack[2] = NULL
  /\ last.pre.shield = NULL
  /\ last.pre.weapons[1] = NULL
  /\ last.totals["metal"] = 4

\* C25: every modification with a recipe mounted on a weapon stack, whether
\* or not the weapon has a recipe, adds its recipe at its own count: each
\* total is the sum over the slot stacks plus the sum over everything
\* mounted on them.
C25_ModificationsCounted ==
  LootShown =>
    \A m \in Materials :
      last.totals[m] = SumNeeds(SlotStacks(last.pre), m)
                       + SumNeeds(MountedOn(SlotStacks(last.pre)), m)

\* A muzzle mounted on a rifle, which has no recipe, added nothing.
C25_Skipped ==
  /\ LootShown
  /\ last.pre.weapons[1] = WithMuzzle(Stack("rifle", 1))
  /\ last.pre.backpack[1] = NULL
  /\ last.pre.backpack[2] = NULL
  /\ last.pre.shield = NULL
  /\ last.totals = [m \in Materials |-> 0]
\* A muzzle mounted on a gun, which has a recipe, added its recipe.
C25_Counted ==
  /\ LootShown
  /\ last.pre.weapons[1] = WithMuzzle(Stack("gun", 1))
  /\ last.pre.backpack[1] = NULL
  /\ last.pre.backpack[2] = NULL
  /\ last.pre.shield = NULL
  /\ last.totals = [m \in Materials |-> RecipeQty("gun", m) + RecipeQty("muzzle", m)]

\* ------------------------------------------------------- recycle ranking
RecycleShown == last.op = "recycleList"
\* Weight of a material by the rarity of its catalog entry.
RarityWeight(m) ==
  LET r == IF m \in DOMAIN MaterialRarity THEN MaterialRarity[m] ELSE "Common" IN
  IF r = "Legendary" THEN 16 ELSE IF r = "Epic" THEN 8 ELSE IF r = "Rare" THEN 4
  ELSE IF r = "Uncommon" THEN 2 ELSE 1
\* Requirement of material m in the loot table of the last step.
Outstanding(m) == IF m \in DOMAIN last.totals THEN last.totals[m] ELSE 0
RECURSIVE ClampedSum(_, _)
ClampedSum(into, mats) ==
  IF mats = {} THEN 0
  ELSE LET m == CHOOSE x \in mats : TRUE
           clamped == IF into[m] <= Outstanding(m) THEN into[m] ELSE Outstanding(m)
       IN clamped * RarityWeight(m) + ClampedSum(into, mats \ {m})
\* The entry of the catalog with this id, and its score by the claim's sum.
Entry(id) == RecycleCatalog[CHOOSE k \in 1..Len(RecycleCatalog) : RecycleCatalog[k].id = id]
RankScore(id) == ClampedSum(Entry(id).recyclesInto, DOMAIN Entry(id).recyclesInto)
\* The recyclable items with a yield map.
RecyclableIds ==
  { RecycleCatalog[k].id : k \in { j \in 1..Len(RecycleCatalog) :
        RecycleCatalog[j].recyclable /\ DOMAIN RecycleCatalog[j].recyclesInto # {} } }
Listed == { last.list[i] : i \in 1..Len(last.list) }

\* C26: the recycle list holds only recyclable items whose score, the sum
\* over the yielded materials of min(yield, requirement) x rarity weight,
\* is positive, in non-increasing score order, at most 10 of them, and no
\* item left out scores more than a listed one.
C26_RecycleRanking ==
  RecycleShown =>
    /\ Len(last.list) <= 10
    /\ Cardinality(Listed) = Len(last.list)
    /\ \A id \in Listed : id \in RecyclableIds /\ RankScore(id) > 0
    /\ \A i, j \in 1..Len(last.list) : i < j => RankScore(last.list[i]) >= RankScore(last.list[j])
    /\ \A id \in RecyclableIds \ Listed :
         RankScore(id) > 0 =>
           /\ Len(last.list) = 10
           /\ \A other \in Listed : RankScore(other) >= RankScore(id)

\* Ten wire required, twenty yielded: the cable scores 10 x 4 and leads.
C26_Witness ==
  /\ RecycleShown
  /\ last.totals["wire"] = 10
  /\ Len(last.list) > 1
  /\ last.list[1] = "cable"
  /\ RankScore("cable") = 40
\* More than ten items score: the list stops at ten.
C26_WitnessTen ==
  /\ RecycleShown
  /\ Len(last.list) = 10
  /\ \E id \in RecyclableIds \ Listed : RankScore(id) > 0
\* Nothing required: nothing listed.
C26_WitnessNone ==
  /\ RecycleShown
  /\ \A m \in Materials : last.totals[m] = 0
  /\ last.list = << >>

\* ----------------------------------------------------- tiered recipes
Resolved == last.op = "resolved"
\* Quantity of material m in a recipe or upgrade-cost field.
FieldQty(field, m) == IF field.has /\ m \in DOMAIN field.qty THEN field.qty[m] ELSE 0
\* Upgrade cost, in material m, of the tiers 2..t of the resolved base that
\* the catalog has.
RECURSIVE UpgradeSum(_, _)
UpgradeSum(t, m) ==
  IF t < 2 THEN 0
  ELSE (IF Id(last.id.base, tiers[t]) \in DOMAIN last.itemMap
        THEN FieldQty(last.itemMap[Id(last.id.base, tiers[t])].upgradeCost, m) ELSE 0)
       + UpgradeSum(t - 1, m)

\* C27: the effective recipe of base_T, when base_i exists, is per
\* material the recipe of base_i plus the upgrade costs of the tiers ii..T;
\* an item without tier suffix keeps its own recipe.
C27_TieredRecipe ==
  Resolved =>
    IF last.id.tier = "" THEN last.recipe = last.itemMap[last.id].recipe
    ELSE Id(last.id.base, "i") \in DOMAIN last.itemMap =>
           \A m \in {"metal", "wire"} :
             FieldQty(last.recipe, m)
               = FieldQty(last.itemMap[Id(last.id.base, "i")].recipe, m)
                 + UpgradeSum(targetTier(last.id.tier), m)

\* The third tier with all three files costed: 2 + 2 + 3 metal, 2 wire.
C27_Witness ==
  /\ Resolved
  /\ last.id = Id("anvil", "iii")
  /\ \A t \in 1..3 : Id("anvil", tiers[t]) \in DOMAIN last.itemMap
                        /\ last.itemMap[Id("anvil", tiers[t])].upgradeCost.has
  /\ FieldQty(last.recipe, "metal") = 7
  /\ FieldQty(last.recipe, "wire") = 2
\* An item without suffix kept its recipe.
C27_WitnessPlain ==
  /\ Resolved
  /\ last.id = Id("hammer", "")
  /\ last.recipe = Costs([metal |-> 14])

\* ------------------------------------------------------------ round trip
Reloaded == last.op = "reload"
\* Two cells hold the same stack: both empty, or the same id and count
\* with the same modification ids at the same indices.
SameStack(a, b) ==
  IF a = NULL \/ b = NULL THEN a = b
  ELSE /\ a.id = b.id
       /\ CountOr1(a) = CountOr1(b)
       /\ \A k \in 0..(Len(a.mods) + Len(b.mods)) :
            IF ModAt(a, k) = NULL \/ ModAt(b, k) = NULL THEN ModAt(a, k) = ModAt(b, k)
            ELSE ModAt(a, k).id = ModAt(b, k).id
Equivalent(a, b) ==
  /\ SameStack(a.augment, b.augment)
  /\ SameStack(a.shield, b.shield)
  /\ \A sec \in ArraySections :
       \A i \in 0..(Len(a[sec]) + Len(b[sec])) : SameStack(At(a[sec], i), At(b[sec], i))

\* C28: for every loadout reached from the empty one by equip operations,
\* deserialize(serialize(loadout)) has the same slots occupied by the same
\* ids with the same counts and the same mounted modifications.
C28_RoundTrip == Reloaded => Equivalent(last.pre, last.restored)

\* A weapon with a mounted modification and a stack of several units came
\* back.
C28_Witness ==
  /\ Reloaded
  /\ \E i \in 0..1 : At(last.pre.weapons, i) # NULL /\ ModAt(At(last.pre.weapons, i), 1) # NULL
                       /\ ModAt(At(last.restored.weapons, i), 1) = ModAt(At(last.pre.weapons, i), 1)
\* A stack of several units in the backpack came back.
C28_WitnessCount ==
  /\ Reloaded
  /\ \E i \in 0..1 : At(last.pre.backpack, i) # NULL /\ At(last.pre.backpack, i).count > 1
                       /\ At(last.restored.backpack, i) = At(last.pre.backpack, i)

\* --------------------------------------------------------------- restore
Restored == last.op = "restore"
\* The pooled containers have the lengths the augment of ld calls for.
PooledLengthsDerived(ld) ==
  /\ Len(ld.backpack) = SlotConfig(ld.augment, "backpack", 16)
  /\ Len(ld.quickUse) = SlotConfig(ld.augment, "quick_use", 3)
  /\ Len(ld.safePocket) = SlotConfig(ld.augment, "safe_pocket", 0)
  /\ Len(ld.extra) = extraSlotCount(ld.augment)

\* C29: after the restore of any payload the pooled containers have the
\* lengths derived from the restored augment and the extra pool passes the
\* type validation of a live augment equip.
C29_RestoreRederivesCapacity ==
  Restored =>
    /\ PooledLengthsDerived(loadout)
    /\ \A i \in 0..(Len(loadout.extra) - 1) : ExtraCellValid(loadout, i)

\* A payload without an augment kept an extra pool with a stack in it.
C29_ExtraWithoutAugment ==
  /\ Restored
  /\ loadout.augment = NULL
  /\ Len(loadout.extra) = 1
  /\ loadout.extra[1] # NULL
\* With an augment restored, an over-long backpack was cut to its capacity
\* and the stack beyond it moved into a free cell.
C29_CutWithAugment ==
  /\ Restored
  /\ loadout.augment # NULL
  /\ Len(last.data.backpack) > 16
  /\ PooledLengthsDerived(loadout)
  /\ loadout.backpack[1] # NULL

\* The stack the stored entry sItem stands for is in cell: nothing for null
\* or an unknown id, else the id with the stored count (1 if absent) and,
\* on an item that supports modifications, each stored modification at its
\* index, nothing for a null or unknown one.
RestoredAs(sItem, cell) ==
  IF sItem = SNULL \/ sItem.id \notin ItemIds THEN cell = NULL
  ELSE /\ cell # NULL
       /\ cell.id = sItem.id
       /\ cell.count = (IF sItem.count = 0 THEN 1 ELSE sItem.count)
       /\ Len(Catalog[sItem.id].supportedModifications) > 0 =>
            \A k \in 1..Len(sItem.mods) :
              IF sItem.mods[k] = SNULL \/ sItem.mods[k].id \notin ItemIds
              THEN ModAt(cell, k - 1) = NULL
              ELSE ModAt(cell, k - 1) # NULL /\ ModAt(cell, k - 1).id = sItem.mods[k].id

\* C30: a payload with ids the catalog does not have is restored all the
\* same: every entry with an unknown id is an empty cell, every other entry
\* is restored as stored.
C30_UnknownIdsResolveEmpty ==
  Restored =>
    /\ RestoredAs(last.data.augment, last.restored.augment)
    /\ RestoredAs(last.data.shield, last.restored.shield)
    /\ \A sec \in ArraySections :
         \A i \in 1..Len(last.data[sec]) : RestoredAs(last.data[sec][i], At(last.restored[sec], i - 1))

\* An unknown id in the backpack and an unknown modification on a weapon
\* became empty cells next to the stacks restored as stored.
C30_Witness ==
  /\ Restored
  /\ Len(last.data.backpack) = 2
  /\ last.data.backpack[1].id = "ghost"
  /\ last.restored.backpack[1] = NULL
  /\ last.restored.backpack[2] = Stack("ammo", 2)
  /\ Len(last.data.weapons) = 2
  /\ last.data.weapons[2].mods[2].id = "ghost"
  /\ last.restored.weapons[2] = Stack("gun", 1)
\* An unknown augment id restored no augment.
C30_WitnessAugment ==
  /\ Restored
  /\ last.data.augment.id = "ghost"
  /\ loadout.augment = NULL
  /\ loadout.shield # NULL


\* C31: whenever no item is being dragged, no auto-scroll interval started
\* for a drag is running: neither the hook's touch timer nor the timer of
\* either auto-scroll effect.
C31_NoLeakedTimers ==
  draggedItem = NULL =>
    /\ ~autoScrollInterval
    /\ ~inventoryAutoScroll
    /\ ~loadoutAutoScroll

\* The session ended by a touchend has no timer left.
C31_TouchEndTornDown ==
  /\ last.op \in {"equip", "touchInventoryDrop", "touchCancel"}
  /\ draggedItem = NULL
  /\ ~autoScrollInterval
\* The touch timer outlives a session that a dragend closed.
C31_Leaked ==
  /\ last.op = "dragEnd"
  /\ draggedItem = NULL
  /\ autoScrollInterval


\* A whole stack was dragged from an occupied loadout location and dropped
\* on the inventory container, by pointer or by touch.
UnequippedByDrag ==
  /\ last.op \in {"inventoryDrop", "touchInventoryDrop"}
  /\ last.src.section # "inventory"
  /\ ~last.src.isSplit
  /\ SlotContent(last.pre, Slot(last.src.section, last.src.index, last.src.modIndex)) # NULL
\* The loadout a shift-click on the drag's source location leaves.
ClickedInstead ==
  handleSlotClick(last.pre, last.src.section, DefaultNeg1(last.src.index), DefaultNeg1(last.src.modIndex))

\* C32: dragging the whole stack of an occupied location to the inventory
\* container leaves the loadout a shift-click on that location leaves,
\* the eviction of an incompatible shield included.
C32_ClickIsDragToInventory ==
  UnequippedByDrag => loadout = ClickedInstead

\* An augment was dragged to the inventory and its shield went with it,
\* as on a click.
C32_WitnessShield ==
  /\ UnequippedByDrag
  /\ last.src.section = "augment"
  /\ last.pre.shield # NULL
  /\ loadout.shield = NULL
  /\ loadout = ClickedInstead
\* A touch drag took the fixed item out of an integrated extra slot, which
\* a click leaves in place.
C32_FixedTaken ==
  /\ UnequippedByDrag
  /\ IsFixedExtra(last.pre, last.src.section, last.src.index)
  /\ loadout # ClickedInstead


\* The occupant of cell (sec, idx) of ld passes canEquip for that cell; the
\* fixed item of an integrated extra slot is where the resize effect put it.
LegalCell(ld, sec, idx) ==
  getItem(ld, sec, idx) # NULL =>
    \/ IsFixedExtra(ld, sec, idx) /\ getItem(ld, sec, idx).isIntegrated
    \/ canEquip(ld, getItem(ld, sec, idx), sec, idx, UNDEF)
\* Every modification mounted on the weapon has the category the weapon
\* declares at its index.
LegalMods(weapon) ==
  \A m \in 0..(Len(weapon.mods) - 1) :
    ModAt(weapon, m) # NULL =>
      /\ m < Len(SupportedModifications(weapon))
      /\ SupportedModifications(weapon)[m + 1] \in Categories(ModAt(weapon, m))
\* The occupied cells of ld.
Cells(ld) ==
  { << sec, -1 >> : sec \in SingleSections }
  \cup UNION { { << sec, i >> : i \in 0..(Len(ld[sec]) - 1) } : sec \in ArraySections }

\* C33: in every reachable state every occupied slot holds an item canEquip
\* accepts for that slot, and every mounted modification has the category
\* its weapon declares at that index.
C33_LoadoutLegal ==
  \A c \in Cells(loadout) :
    /\ LegalCell(loadout, c[1], c[2])
    /\ getItem(loadout, c[1], c[2]) # NULL => LegalMods(getItem(loadout, c[1], c[2]))

\* A swap left an item in a slot that does not accept it.
C33_IllegalAfterSwap ==
  /\ last.op = "equip"
  /\ last.src.section = "weapons"
  /\ last.tgt.section = "backpack"
  /\ ~LegalCell(loadout, "weapons", last.src.index)


\* The count of the stack is a whole number from 1 up to its stack size,
\* and each modification mounted on it has count 1.
CountInRange(item) ==
  /\ item.count >= 1
  /\ StackSize(item) # 0 => item.count <= StackSize(item)
  /\ \A m \in 0..(Len(item.mods) - 1) : ModAt(item, m) # NULL => ModAt(item, m).count = 1

\* C34: in every reachable state every stack of the loadout has a count of
\* at least 1 and at most its stack size, and every mounted modification
\* has count 1.
C34_CountsInRange ==
  \A c \in Cells(loadout) :
    getItem(loadout, c[1], c[2]) # NULL => CountInRange(getItem(loadout, c[1], c[2]))

\* A count below 1 typed into the input is in the loadout after a reload,
\* with no input being edited.
C34_NegativeSettled ==
  /\ last.op = "reload"
  /\ getItem(loadout, last.tgt.section, last.tgt.index) # NULL
  /\ getItem(loadout, last.tgt.section, last.tgt.index).count < 0
\* A count above the stack size typed into the input was cut to the stack
\* size.
C34_Clamped ==
  /\ last.op = "countChange"
  /\ getItem(loadout, last.tgt.section, last.tgt.index).count = StackSize(last.item)
  /\ last.item.count < StackSize(last.item)


\* The last operation left the equipped augment as it was.
AugmentKept == last.op # "none" /\ last.pre.augment = loadout.augment
\* The cells outside the extra pool that hold an integrated item.
IntegratedElsewhere(ld) ==
  { c \in Cells(ld) : c[1] # "extra" /\ getItem(ld, c[1], c[2]).isIntegrated }

\* C35: an operation that leaves the augment as it was leaves the fixed
\* item of every integrated extra slot in its slot, and no further
\* integrated item appears outside the extra pool.
C35_FixedItemStays ==
  AugmentKept =>
    /\ \A i \in 0..(Len(last.pre.extra) - 1) :
         (IsFixedExtra(last.pre, "extra", i) /\ ExtraCellValid(last.pre, i))
           => At(loadout.extra, i) = At(last.pre.extra, i)
    /\ Cardinality(IntegratedElsewhere(loadout)) <= Cardinality(IntegratedElsewhere(last.pre))

\* A touch drag moved the fixed binoculars into the backpack.
C35_MovedByTouch ==
  /\ AugmentKept
  /\ last.op = "equip"
  /\ IsFixedExtra(last.pre, last.src.section, last.src.index)
  /\ At(loadout.extra, last.src.index) = NULL
  /\ last.tgt.section = "backpack"
  /\ getItem(loadout, "backpack", last.tgt.index).isIntegrated
\* A shift-click on the fixed slot left the item in place.
C35_ClickRefused ==
  /\ last.op = "click"
  /\ IsFixedExtra(last.pre, last.tgt.section, last.tgt.index)
  /\ loadout = last.pre


\* This step starts a drag, moves the pointer or the finger of the drag in
\* flight, or ends the drag without a drop (StartStep is the drag start).
MoveStep == draggedItem # NULL /\ last' = last
CancelStep == last.op = "none" /\ last'.op \in {"dragEnd", "touchCancel"}

\* C36: a drag-start, a pointer or touch move and the end of a drag without
\* a drop leave the loadout as it is, so that a cancelled drag, split or
\* not, leaves every slot and every count as before the drag-start.
C36_MutationOnlyAtDrop ==
  [][(StartStep \/ MoveStep \/ CancelStep) => loadout' = loadout]_vars

\* A split drag is in flight over a latched slot: the source slot shows the
\* remainder while the loadout still holds the whole stack.
C36_Witness ==
  /\ draggedItem # NULL
  /\ dragSource.isSplit
  /\ activeSlot # NoSlot
  /\ getItem(loadout, dragSource.section, dragSource.index).count
       > displayItem(loadout, draggedItem, dragSource, dragSource.section, dragSource.index).count
\* A drag ended without a drop while a slot was latched.
C36_WitnessCancelled ==
  /\ last.op = "dragEnd"
  /\ last.tgt # NoSlot
  /\ loadout = last.pre
  /\ draggedItem = NULL


\* ----------------------------------------------------- capacity shrink
\* The pool before the last resize, the pool after it, the new capacity.
Before == last.pre.backpack
After == loadout.backpack
NewSize == last.tgt.index
Shrunk == last.op = "resize" /\ NewSize < Len(Before)
IsItem(cell) == cell # NULL
\* The items of the cut-off cells in their order, and the empty indices
\* below the new capacity in ascending order.
Displaced == SelectSeq(SubSeq(Before, NewSize + 1, Len(Before)), IsItem)
IsGap(i) == Before[i] = NULL
Gaps == SelectSeq([i \in 1..NewSize |-> i], IsGap)
ItemCount(pool) == Len(SelectSeq(pool, IsItem))

\* C37: a pool that shrinks to a capacity below its length has that
\* capacity as its length, keeps every item below the capacity at its
\* index, receives the displaced items in their order in its empty
\* indices in ascending order, and holds min(k, capacity) items: the
\* excess is gone.
C37_CapacityShrink ==
  Shrunk =>
    /\ Len(After) = NewSize
    /\ \A i \in 1..NewSize : Before[i] # NULL => After[i] = Before[i]
    /\ \A j \in 1..Len(Gaps) :
         After[Gaps[j]] = IF j <= Len(Displaced) THEN Displaced[j] ELSE NULL
    /\ ItemCount(After) = Min(ItemCount(Before), NewSize)

\* Two displaced items went into two gaps in their order, around a kept one.
C37_Witness ==
  /\ Shrunk
  /\ NewSize = 3
  /\ Before = << NULL, Stack("ammo", 1), NULL, Stack("ammo", 2), Stack("ammo", 3) >>
  /\ After = << Stack("ammo", 2), Stack("ammo", 1), Stack("ammo", 3) >>
\* More items were displaced than there were gaps: the excess is gone.
C37_WitnessDiscarded ==
  /\ Shrunk
  /\ Len(Displaced) > Len(Gaps)
  /\ ItemCount(After) = NewSize
  /\ ItemCount(After) < ItemCount(Before)


\* The i-th registered slot is nearest to the pointer of the last move and
\* every slot registered before it is farther away.
FirstNearest(i) ==
  /\ \A j \in 1..Len(MovedKeys) : MovedDist(i) <= MovedDist(j)
  /\ \A j \in 1..(i - 1) : MovedDist(j) > MovedDist(i)

\* C38: the slot a pointer move latches is fixed by the snapshot of the
\* centres and the pointer position: it is the nearest slot within the
\* threshold and, of several slots at the same least distance, the one
\* registered first.
C38_FirstRegisteredWins ==
  (Moved /\ last.item # NULL /\ SomeCentreBelow(threshold)) =>
    \E i \in 1..Len(MovedKeys) : FirstNearest(i) /\ activeSlot = MovedKeys[i]

\* The pointer was halfway between two centres, both within the threshold:
\* the one registered first was latched.
C38_Witness ==
  /\ Moved
  /\ last.item # NULL
  /\ \E i \in 1..(Len(MovedKeys) - 1) :
       /\ MovedDist(i) = MovedDist(i + 1)
       /\ MovedDist(i) < threshold
       /\ FirstNearest(i)
       /\ activeSlot = MovedKeys[i]


\* ------------------------------------------------- session consistency
\* The verdict canEquip gives for the dragged item on the latched slot.
LatchVerdict ==
  IF canEquip(loadout, draggedItem, activeSlot.section, activeSlot.index, activeSlot.modIndex)
  THEN "valid" ELSE "invalid"

\* C39: the dragged item is null exactly when the drag source is; a slot
\* is latched or a verdict is present only while an item is dragged; the
\* verdict is present exactly when a slot is latched, and then it is
\* 'valid' exactly when canEquip accepts the dragged item on that slot.
C39_SessionConsistent ==
  /\ (draggedItem = NULL) <=> (dragSource = NoSource)
  /\ draggedItem = NULL => (activeSlot = NoSlot /\ dropValidity = "null")
  /\ (dropValidity # "null") <=> (activeSlot # NoSlot)
  /\ (draggedItem # NULL /\ activeSlot # NoSlot) => dropValidity = LatchVerdict

\* The touch of a second finger replaced the dragged item under a latched
\* slot: the verdict is the one of the first item.
C39_StaleVerdict ==
  /\ last.op = "touchStart"
  /\ activeSlot # NoSlot
  /\ draggedItem # NULL
  /\ dropValidity # LatchVerdict
\* A slot is latched with the verdict of the item being dragged.
C39_Latched ==
  /\ draggedItem # NULL
  /\ activeSlot # NoSlot
  /\ dropValidity = "invalid"
  /\ dropValidity = LatchVerdict

====
